---- MODULE Spec2Model ----
(***************************************************************************)
(* Model of the calibration-table interpolation engine of the BunkerWatch  *)
(* server (src/lambda/bunkerwatch-enhanced-handler.js): the axis resolvers *)
(* getTrimBounds / getHeelBounds, the ullage bracket finders, the linear   *)
(* interpolator, the sounding and heel-correction evaluators, the          *)
(* composite resolver getCompleteSoundingData and the POST /sounding route *)
(* that calls it; and of the routes syncSoundings and syncBunkering that    *)
(* write the logs of a vessel in one transaction each.                     *)
(*                                                                         *)
(* Numbers.  A JavaScript number is modelled as an exact rational <<n, d>> *)
(* in lowest terms with d > 0; NaN is <<0, 0>>.  The rounding of IEEE      *)
(* doubles is not modelled: every arithmetic step is exact.                *)
(* A database cell is <<>> (SQL NULL) or <<r>> (a numeric holding r).      *)
(* A request body field is <<"number", r>>, <<"null", NaN>> or             *)
(* <<"undefined", NaN>>.                                                   *)
(***************************************************************************)
EXTENDS Integers, Sequences, FiniteSets, TLC

VARIABLES
    soundingTable,  \* rows of main_sounding_trim_data of the compartment
    heelTable,      \* rows of heel_correction_data of the compartment
    pc,             \* position of the POST /sounding request being served
    body,           \* the parsed request body: ullage, trim, heel
    baseSoundingData,   \* getCompleteSoundingData: result of the sounding stage
    heelCorrectionData, \* getCompleteSoundingData: result of the heel stage
    finalVolume,    \* getCompleteSoundingData: the local finalVolume
    response,       \* what exports.handler returned for the request
    db,             \* the committed rows of the log tables the sync routes write
    calls           \* the calls of syncSoundings and syncBunkering in flight

vars == <<soundingTable, heelTable, pc, body, baseSoundingData,
          heelCorrectionData, finalVolume, response, db, calls>>

\* the variables of the interpolation engine and of POST /sounding
engineVars == <<soundingTable, heelTable, pc, body, baseSoundingData,
                heelCorrectionData, finalVolume, response>>

----------------------------------------------------------------------------
(* The log tables and the calls that write them.  A row of a table is the  *)
(* record of its key columns; tx holds the rows a call has inserted in its *)
(* open transaction, which no other call sees before COMMIT.               *)

LogTables == {"sounding_reports", "sounding_logs", "bunkering_operations",
              "bunkering_readings"}

NoRows == [t \in LogTables |-> <<>>]

\* empty tables; serial is the next value of the id sequences
EmptyDb == [rows |-> NoRows, serial |-> 1]

\* no call of a sync route has been made
NoCalls == <<>>

----------------------------------------------------------------------------
(* Exact rational arithmetic standing for JavaScript numbers.              *)

NaN == <<0, 0>>

Abs(n) == IF n < 0 THEN -n ELSE n

RECURSIVE GCD(_, _)
GCD(a, b) == IF b = 0 THEN a ELSE GCD(b, a % b)

\* the number n/d in lowest terms
R(n, d) ==
    IF d = 0 THEN NaN
    ELSE LET g == GCD(Abs(n), Abs(d))
             s == IF d < 0 THEN -1 ELSE 1
         IN  <<(s * n) \div g, (s * d) \div g>>

IsNaN(a) == a[2] = 0

Zero == R(0, 1)

\* sums and products are reduced before they are multiplied out
Add(a, b) == IF IsNaN(a) \/ IsNaN(b) THEN NaN
             ELSE LET g == GCD(a[2], b[2])
                  IN  R(a[1] * (b[2] \div g) + b[1] * (a[2] \div g),
                        (a[2] \div g) * b[2])
Neg(a) == <<-a[1], a[2]>>
Sub(a, b) == Add(a, Neg(b))
Mul(a, b) == IF IsNaN(a) \/ IsNaN(b) THEN NaN
             ELSE LET g1 == GCD(Abs(a[1]), b[2])
                      g2 == GCD(Abs(b[1]), a[2])
                  IN  R((a[1] \div g1) * (b[1] \div g2),
                        (a[2] \div g2) * (b[2] \div g1))
\* callers never divide by zero (linearInterpolate guards nx1 === nx2)
Div(a, b) == IF IsNaN(a) \/ IsNaN(b) \/ b[1] = 0 THEN NaN
             ELSE Mul(a, IF b[1] < 0 THEN <<-b[2], -b[1]>> ELSE <<b[2], b[1]>>)

\* a < b, a > b, a <= b on numbers: false when either side is NaN
Lt(a, b) == ~IsNaN(a) /\ ~IsNaN(b) /\ Sub(a, b)[1] < 0
Gt(a, b) == Lt(b, a)
Le(a, b) == ~IsNaN(a) /\ ~IsNaN(b) /\ Sub(a, b)[1] <= 0

\* a === b on numbers: NaN equals nothing
StrictEq(a, b) == ~IsNaN(a) /\ ~IsNaN(b) /\ a = b

\* (mutant) Math.floor in the place of Math.round
MathFloor(a) == IF IsNaN(a) THEN NaN ELSE R(a[1] \div a[2], 1)

\* Math.round: the nearest integer, a half rounding towards +Infinity
MathRound(a) == IF IsNaN(a) THEN NaN
                ELSE R((2 * a[1] + a[2]) \div (2 * a[2]), 1)

\* a number is falsy when it is 0 or NaN
Falsy(a) == IsNaN(a) \/ a[1] = 0

\* (mutant) the `|| 0` is missing: NaN stays NaN
OrZeroDropped(a) == a

\* `x || 0` on a number
OrZero(a) == IF Falsy(a) THEN Zero ELSE a

\* `x || null` on a number: <<>> is null, <<r>> the number r
OrNull(a) == IF Falsy(a) THEN <<>> ELSE <<a>>

\* parseFloat of a database cell: NULL parses to NaN
parseFloatCell(c) == IF c = <<>> THEN NaN ELSE c[1]

\* parseFloat of a request body field: null and undefined parse to NaN
parseFloatField(f) == IF f[1] = "number" THEN f[2] ELSE NaN

\* JSON.stringify of a parseFloat result: NaN is written null (<<>>)
OrNaNNull(f) == IF IsNaN(parseFloatField(f)) THEN <<>> ELSE <<parseFloatField(f)>>

Num(r) == <<"number", r>>
Null == <<"null", NaN>>
Undefined == <<"undefined", NaN>>

----------------------------------------------------------------------------
(* Error messages: the template literal and the two values it embeds.      *)

Msg(text, target, bound) == [text |-> text, target |-> target, bound |-> bound]

----------------------------------------------------------------------------
(* The fixed trim and heel axes and their resolvers.                       *)

trimRanges == <<
    [value |-> R(-4, 1), column |-> "trim_minus_4_0"],
    [value |-> R(-3, 1), column |-> "trim_minus_3_0"],
    [value |-> R(-2, 1), column |-> "trim_minus_2_0"],
    [value |-> R(-3, 2), column |-> "trim_minus_1_5"],
    [value |-> R(-1, 1), column |-> "trim_minus_1_0"],
    [value |-> R(-1, 2), column |-> "trim_minus_0_5"],
    [value |-> R(0, 1),  column |-> "trim_0_0"],
    [value |-> R(1, 2),  column |-> "trim_plus_0_5"],
    [value |-> R(1, 1),  column |-> "trim_plus_1_0"],
    [value |-> R(3, 2),  column |-> "trim_plus_1_5"],
    [value |-> R(2, 1),  column |-> "trim_plus_2_0"],
    [value |-> R(3, 1),  column |-> "trim_plus_3_0"],
    [value |-> R(4, 1),  column |-> "trim_plus_4_0"] >>

heelRanges == <<
    [value |-> R(-3, 1), column |-> "heel_minus_3_0"],
    [value |-> R(-2, 1), column |-> "heel_minus_2_0"],
    [value |-> R(-3, 2), column |-> "heel_minus_1_5"],
    [value |-> R(-1, 1), column |-> "heel_minus_1_0"],
    [value |-> R(-1, 2), column |-> "heel_minus_0_5"],
    [value |-> R(0, 1),  column |-> "heel_0_0"],
    [value |-> R(1, 2),  column |-> "heel_plus_0_5"],
    [value |-> R(1, 1),  column |-> "heel_plus_1_0"],
    [value |-> R(3, 2),  column |-> "heel_plus_1_5"],
    [value |-> R(2, 1),  column |-> "heel_plus_2_0"],
    [value |-> R(3, 1),  column |-> "heel_plus_3_0"] >>

\* the cascade `if (trimFloat >= 4.0) return 'trim_plus_4_0'; ...`: the column
\* of the largest axis point not above the value, the first column otherwise
getTrimColumn(trimValue) ==
    LET trimFloat == parseFloatField(trimValue)
        below == {i \in 1..Len(trimRanges) : Le(trimRanges[i].value, trimFloat)}
    IN  IF below = {} THEN trimRanges[1].column
        ELSE trimRanges[CHOOSE i \in below : \A j \in below : j <= i].column

getHeelColumn(heelValue) ==
    LET heelFloat == parseFloatField(heelValue)
        below == {i \in 1..Len(heelRanges) : Le(heelRanges[i].value, heelFloat)}
    IN  IF below = {} THEN heelRanges[1].column
        ELSE heelRanges[CHOOSE i \in below : \A j \in below : j <= i].column

NoPoint == [value |-> NaN, column |-> ""]

\* the three shapes an axis resolver returns
AxisExact(column) ==
    [outOfRange |-> FALSE, exact |-> TRUE, column |-> column,
     lower |-> NoPoint, upper |-> NoPoint, message |-> Msg("", NaN, NaN)]
AxisBracket(lower, upper) ==
    [outOfRange |-> FALSE, exact |-> FALSE, column |-> "",
     lower |-> lower, upper |-> upper, message |-> Msg("", NaN, NaN)]
AxisOutOfRange(message) ==
    [outOfRange |-> TRUE, exact |-> FALSE, column |-> "",
     lower |-> NoPoint, upper |-> NoPoint, message |-> message]

\* (mutant) the search for an exact match stops before the last axis point
ExactMatchesButLast(ranges, target) ==
    {i \in 1..(Len(ranges) - 1) : StrictEq(ranges[i].value, target)}

\* ranges.find(t => t.value === target): the first match
ExactMatches(ranges, target) ==
    {i \in 1..Len(ranges) : StrictEq(ranges[i].value, target)}

\* (mutant) the loop tests only target > r[i].value
BracketIndicesLowerOnly(ranges, target) ==
    {i \in 1..(Len(ranges) - 1) : Gt(target, ranges[i].value)}

\* the loop `for (i = 0; i < ranges.length - 1; i++) if (target > r[i].value
\* && target < r[i+1].value) { ...; break; }`: the indices it can stop at
BracketIndices(ranges, target) ==
    {i \in 1..(Len(ranges) - 1) :
        Gt(target, ranges[i].value) /\ Lt(target, ranges[i + 1].value)}

Least(S) == CHOOSE i \in S : \A j \in S : i <= j

\* (mutant) the trim is resolved with the column cascade getTrimColumn, which
\* clamps instead of reporting out of range
getTrimBoundsByColumn(targetTrim) == AxisExact(getTrimColumn(targetTrim))

getTrimBounds(targetTrim) ==
    LET target == parseFloatField(targetTrim)
        em == ExactMatches(trimRanges, target)
        br == BracketIndices(trimRanges, target)
    IN  IF em # {} THEN AxisExact(trimRanges[Least(em)].column)
        ELSE IF br = {} THEN
            IF Lt(target, trimRanges[1].value)
            THEN AxisOutOfRange(Msg(
                "Trim ${target} is below minimum supported trim ${min}",
                target, trimRanges[1].value))
            ELSE AxisOutOfRange(Msg(
                "Trim ${target} is above maximum supported trim ${max}",
                target, trimRanges[Len(trimRanges)].value))
        ELSE AxisBracket(trimRanges[Least(br)], trimRanges[Least(br) + 1])

\* (mutant) the heel is resolved on the trim axis
getHeelBoundsOnTrimAxis(targetHeel) == getTrimBounds(targetHeel)

getHeelBounds(targetHeel) ==
    LET target == parseFloatField(targetHeel)
        em == ExactMatches(heelRanges, target)
        br == BracketIndices(heelRanges, target)
    IN  IF em # {} THEN AxisExact(heelRanges[Least(em)].column)
        ELSE IF br = {} THEN
            IF Lt(target, heelRanges[1].value)
            THEN AxisOutOfRange(Msg(
                "Heel ${target} is below minimum supported heel ${min}",
                target, heelRanges[1].value))
            ELSE AxisOutOfRange(Msg(
                "Heel ${target} is above maximum supported heel ${max}",
                target, heelRanges[Len(heelRanges)].value))
        ELSE AxisBracket(heelRanges[Least(br)], heelRanges[Least(br) + 1])

----------------------------------------------------------------------------
(* The linear interpolator.  Its arguments are numbers already; parseFloat *)
(* of a number is that number.                                             *)

\* (mutant) the offset is not divided by the width of the bracket
linearInterpolateUnscaled(x1, y1, x2, y2, x) ==
    IF StrictEq(x1, x2) THEN y1
    ELSE Add(y1, Mul(Sub(y2, y1), Sub(x, x1)))

\* (mutant) the degenerate bracket is not guarded: the division is by zero
linearInterpolateUnguarded(x1, y1, x2, y2, x) ==
    Add(y1, Mul(Sub(y2, y1), Div(Sub(x, x1), Sub(x2, x1))))

\* (mutant) the offset is measured from the upper end of the bracket
linearInterpolateFromUpper(x1, y1, x2, y2, x) ==
    IF StrictEq(x1, x2) THEN y1
    ELSE Add(y1, Mul(Sub(y2, y1), Div(Sub(x2, x), Sub(x2, x1))))

linearInterpolate(x1, y1, x2, y2, x) ==
    IF StrictEq(x1, x2) THEN y1
    ELSE Add(y1, Mul(Sub(y2, y1), Div(Sub(x, x1), Sub(x2, x1))))

----------------------------------------------------------------------------
(* The ullage bracket finders.  A table is a sequence of rows (the heap    *)
(* order of the relation); a row maps a column name to a cell.             *)

\* (mutant) the WHERE condition on ullage is dropped
SelectWhereDropped(table, ullages) == table

\* the rows of the table satisfying a WHERE condition, in heap order
RECURSIVE SelectWhere(_, _)
SelectWhere(table, ullages) ==
    IF table = <<>> THEN <<>>
    ELSE LET rest == SelectWhere(Tail(table), ullages)
         IN  IF \E u \in ullages : StrictEq(parseFloatCell(Head(table).ullage), u)
             THEN <<Head(table)>> \o rest ELSE rest

\* a set of numbers as the ascending sequence ORDER BY returns
RECURSIVE Ascending(_)
Ascending(S) ==
    IF S = {} THEN <<>>
    ELSE LET m == CHOOSE a \in S : \A b \in S : Le(a, b)
         IN  <<m>> \o Ascending(S \ {m})

\* (mutant) ORDER BY ullage is missing: the distinct ullages in heap order
DistinctUllagesHeapOrder(table) ==
    LET firsts == {i \in 1..Len(table) :
                      \A j \in 1..(i - 1) : table[j].ullage # table[i].ullage}
    IN  [k \in 1..Cardinality(firsts) |->
            parseFloatCell(table[CHOOSE i \in firsts :
                Cardinality({j \in firsts : j <= i}) = k].ullage)]

\* SELECT DISTINCT ullage ... ORDER BY ullage, each parsed with parseFloat
DistinctUllages(table) ==
    Ascending({parseFloatCell(table[i].ullage) : i \in 1..Len(table)})

\* (mutant) one row for each ullage (DISTINCT ON): never more than two rows
SelectInOnePerUllage(table, lowerUllage, upperUllage) ==
    SubSeq(SelectWhere(table, {lowerUllage}), 1, 1)
        \o SubSeq(SelectWhere(table, {upperUllage}), 1, 1)

\* (mutant) ORDER BY ullage is dropped: the rows come in heap order
SelectInHeapOrder(table, lowerUllage, upperUllage) ==
    SelectWhere(table, {lowerUllage, upperUllage})

\* SELECT ... WHERE ullage IN ($2, $3) ORDER BY ullage
SelectIn(table, lowerUllage, upperUllage) ==
    SelectWhere(table, {lowerUllage}) \o SelectWhere(table, {upperUllage})

\* (mutant) an exact match is reported as the bracket from the ullage to itself
UllageExactAsBracket(ullage) ==
    [outOfRange |-> FALSE, exact |-> FALSE, ullage |-> NaN,
     lowerUllage |-> ullage, upperUllage |-> ullage, message |-> Msg("", NaN, NaN)]

UllageExact(ullage) ==
    [outOfRange |-> FALSE, exact |-> TRUE, ullage |-> ullage,
     lowerUllage |-> NaN, upperUllage |-> NaN, message |-> Msg("", NaN, NaN)]
UllageBracket(lowerUllage, upperUllage) ==
    [outOfRange |-> FALSE, exact |-> FALSE, ullage |-> NaN,
     lowerUllage |-> lowerUllage, upperUllage |-> upperUllage,
     message |-> Msg("", NaN, NaN)]
UllageOutOfRange(message) ==
    [outOfRange |-> TRUE, exact |-> FALSE, ullage |-> NaN,
     lowerUllage |-> NaN, upperUllage |-> NaN, message |-> message]

\* (mutant) the loop tests only target > ullages[i]
UllageBracketIndicesLowerOnly(ullages, target) ==
    {i \in 1..(Len(ullages) - 1) : Gt(target, ullages[i])}

\* the bracket loop over the ullages
UllageBracketIndices(ullages, target) ==
    {i \in 1..(Len(ullages) - 1) :
        Gt(target, ullages[i]) /\ Lt(target, ullages[i + 1])}

getUllageBounds(table, targetUllage) ==
    LET find(ullages, target) ==
            LET br == UllageBracketIndices(ullages, target)
            IN  IF Len(ullages) = 0 THEN UllageOutOfRange(Msg(
                    "No ullage data found for this compartment", NaN, NaN))
                ELSE IF \E i \in 1..Len(ullages) : StrictEq(ullages[i], target)
                THEN UllageExact(target)
                ELSE IF br = {} THEN
                    IF Lt(target, ullages[1])
                    THEN UllageOutOfRange(Msg(
                        "Ullage ${target} is below minimum ullage ${min}",
                        target, ullages[1]))
                    ELSE UllageOutOfRange(Msg(
                        "Ullage ${target} is above maximum ullage ${max}",
                        target, ullages[Len(ullages)]))
                ELSE UllageBracket(ullages[Least(br)], ullages[Least(br) + 1])
    IN  find(DistinctUllages(table), parseFloatField(targetUllage))

\* (mutant) the heel finder reads the ullages of main_sounding_trim_data
getHeelUllageBoundsOfSoundings(table, targetUllage) ==
    getUllageBounds(soundingTable, targetUllage)

getHeelUllageBounds(table, targetUllage) ==
    LET find(ullages, target) ==
            LET br == UllageBracketIndices(ullages, target)
            IN  IF Len(ullages) = 0 THEN UllageOutOfRange(Msg(
                    "No heel ullage data found for this compartment", NaN, NaN))
                ELSE IF \E i \in 1..Len(ullages) : StrictEq(ullages[i], target)
                THEN UllageExact(target)
                ELSE IF br = {} THEN
                    IF Lt(target, ullages[1])
                    THEN UllageOutOfRange(Msg(
                        "Ullage ${target} is below minimum heel correction ullage ${min}",
                        target, ullages[1]))
                    ELSE UllageOutOfRange(Msg(
                        "Ullage ${target} is above maximum heel correction ullage ${max}",
                        target, ullages[Len(ullages)]))
                ELSE UllageBracket(ullages[Least(br)], ullages[Least(br) + 1])
    IN  find(DistinctUllages(table), parseFloatField(targetUllage))

----------------------------------------------------------------------------
(* What an evaluator does: it throws an Error or returns a value.  An      *)
(* evaluator is modelled as the SET of its possible outcomes, because a    *)
(* query with LIMIT 1 and no ORDER BY may return any matching row.         *)

Throw(message) == [threw |-> TRUE, message |-> message, value |-> <<>>]
Return(value) == [threw |-> FALSE, message |-> Msg("", NaN, NaN), value |-> <<value>>]

\* the `interpolation_bounds` objects; <<>> stands for the property being absent
UllageBoundsOnly(lowerUllage, upperUllage) ==
    <<[ullage |-> [lower |-> lowerUllage, upper |-> upperUllage]]>>
UllageTrimBounds(lowerUllage, upperUllage, lowerTrim, upperTrim) ==
    <<[ullage |-> [lower |-> lowerUllage, upper |-> upperUllage],
       trim |-> [lower |-> lowerTrim, upper |-> upperTrim]]>>
UllageHeelBounds(lowerUllage, upperUllage, lowerHeel, upperHeel) ==
    <<[ullage |-> [lower |-> lowerUllage, upper |-> upperUllage],
       heel |-> [lower |-> lowerHeel, upper |-> upperHeel]]>>

----------------------------------------------------------------------------
(* Heel Correction Evaluator.                                              *)
(* Each evaluator is written as the branches of its code, every branch an  *)
(* operator of the values the code has bound in a const by then (the       *)
(* bounds, the rows the query returned).                                   *)

getHeelCorrectionWithUllageInterpolation(table, targetUllage, heelColumn, targetHeel) ==
    LET \* ullageBounds.exact: SELECT ... WHERE ullage = $2 LIMIT 1
        exactMatch(rows) ==
            IF Len(rows) = 0
            THEN {Throw(Msg("No heel correction data found for exact match", NaN, NaN))}
            ELSE {Return([heel_correction |-> OrZero(parseFloatCell(rows[i][heelColumn])),
                          interpolation_used |-> <<"none">>,
                          interpolation_bounds |-> <<>>,
                          error |-> <<>>]) : i \in 1..Len(rows)}
        \* SELECT ... WHERE ullage IN ($2, $3) ORDER BY ullage
        ullageOnly(lowerUllage, upperUllage, rows) ==
            IF Len(rows) # 2
            THEN {Throw(Msg("Insufficient heel correction data for ullage interpolation",
                            NaN, NaN))}
            ELSE {Return([heel_correction |-> linearInterpolate(
                              lowerUllage, OrZero(parseFloatCell(rows[1][heelColumn])),
                              upperUllage, OrZero(parseFloatCell(rows[2][heelColumn])),
                              parseFloatField(targetUllage)),
                          interpolation_used |-> <<"ullage_only">>,
                          interpolation_bounds |-> UllageBoundsOnly(lowerUllage, upperUllage),
                          error |-> <<>>])}
        resolved(ullageBounds) ==
            IF ullageBounds.outOfRange THEN {Throw(ullageBounds.message)}
            ELSE IF ullageBounds.exact
            THEN exactMatch(SelectWhere(table, {ullageBounds.ullage}))
            ELSE ullageOnly(ullageBounds.lowerUllage, ullageBounds.upperUllage,
                            SelectIn(table, ullageBounds.lowerUllage,
                                     ullageBounds.upperUllage))
    IN  resolved(getHeelUllageBounds(table, targetUllage))

\* (mutant) a bracketed heel is not interpolated: the lower column is read
getHeelCorrectionLowerColumn(table, targetUllage, targetHeel) ==
    LET resolved(heelBounds) ==
            IF heelBounds.outOfRange THEN {Throw(heelBounds.message)}
            ELSE getHeelCorrectionWithUllageInterpolation(table, targetUllage,
                     IF heelBounds.exact THEN heelBounds.column
                     ELSE heelBounds.lower.column, targetHeel)
    IN  resolved(getHeelBounds(targetHeel))

getHeelCorrectionWithInterpolation(table, targetUllage, targetHeel) ==
    LET \* heel bracketed, ullageBounds.exact
        heelOnly(lowerHeel, upperHeel, rows) ==
            IF Len(rows) = 0
            THEN {Throw(Msg("No heel correction data found for exact ullage match",
                            NaN, NaN))}
            ELSE {Return([heel_correction |-> linearInterpolate(
                              lowerHeel.value,
                              OrZero(parseFloatCell(rows[i][lowerHeel.column])),
                              upperHeel.value,
                              OrZero(parseFloatCell(rows[i][upperHeel.column])),
                              parseFloatField(targetHeel)),
                          interpolation_used |-> <<"heel_only">>,
                          interpolation_bounds |-> <<>>,
                          error |-> <<>>]) : i \in 1..Len(rows)}
        \* heel bracketed, ullage bracketed
        bilinear(lowerHeel, upperHeel, lowerUllage, upperUllage, rows) ==
            IF Len(rows) # 2
            THEN {Throw(Msg("Insufficient heel correction data for bilinear interpolation",
                            NaN, NaN))}
            ELSE
                LET lowerUllageRow == rows[1]
                    upperUllageRow == rows[2]
                    correctionAtLowerUllage == linearInterpolate(
                        lowerHeel.value,
                        OrZero(parseFloatCell(lowerUllageRow[lowerHeel.column])),
                        upperHeel.value,
                        OrZero(parseFloatCell(lowerUllageRow[upperHeel.column])),
                        parseFloatField(targetHeel))
                    correctionAtUpperUllage == linearInterpolate(
                        lowerHeel.value,
                        OrZero(parseFloatCell(upperUllageRow[lowerHeel.column])),
                        upperHeel.value,
                        OrZero(parseFloatCell(upperUllageRow[upperHeel.column])),
                        parseFloatField(targetHeel))
                    finalCorrection == linearInterpolate(
                        lowerUllage, correctionAtLowerUllage,
                        upperUllage, correctionAtUpperUllage,
                        parseFloatField(targetUllage))
                IN  {Return([heel_correction |-> finalCorrection,
                             interpolation_used |-> <<"bilinear">>,
                             interpolation_bounds |-> UllageHeelBounds(
                                 lowerUllage, upperUllage,
                                 lowerHeel.value, upperHeel.value),
                             error |-> <<>>])}
        bracketed(lowerHeel, upperHeel, ullageBounds) ==
            IF ullageBounds.outOfRange THEN {Throw(ullageBounds.message)}
            ELSE IF ullageBounds.exact
            THEN heelOnly(lowerHeel, upperHeel,
                          SelectWhere(table, {ullageBounds.ullage}))
            ELSE bilinear(lowerHeel, upperHeel,
                          ullageBounds.lowerUllage, ullageBounds.upperUllage,
                          SelectIn(table, ullageBounds.lowerUllage,
                                   ullageBounds.upperUllage))
        resolved(heelBounds) ==
            IF heelBounds.outOfRange THEN {Throw(heelBounds.message)}
            ELSE IF heelBounds.exact THEN
                getHeelCorrectionWithUllageInterpolation(table, targetUllage,
                                                         heelBounds.column, targetHeel)
            ELSE bracketed(heelBounds.lower, heelBounds.upper,
                           getHeelUllageBounds(table, targetUllage))
    IN  resolved(getHeelBounds(targetHeel))

----------------------------------------------------------------------------
(* Sounding Evaluator.                                                     *)

\* the closure interpolateValue(prop) of getSoundingWithUllageInterpolation and
\* interpolateProperty(prop) of getSoundingDataWithInterpolation
interpolateValue(lowerRow, upperRow, lowerUllage, upperUllage, targetUllage, prop) ==
    linearInterpolate(lowerUllage, OrZero(parseFloatCell(lowerRow[prop])),
                      upperUllage, OrZero(parseFloatCell(upperRow[prop])),
                      parseFloatField(targetUllage))

getSoundingWithUllageInterpolation(table, targetUllage, trimColumn, targetTrim) ==
    LET \* ullageBounds.exact: SELECT ... WHERE ullage = $2 LIMIT 1
        exactMatch(rows) ==
            IF Len(rows) = 0
            THEN {Throw(Msg("No data found for exact match", NaN, NaN))}
            ELSE {Return([volume |-> OrZero(parseFloatCell(rows[i][trimColumn])),
                          sound |-> OrNull(parseFloatCell(rows[i].sound)),
                          ullage |-> parseFloatCell(rows[i].ullage),
                          lcg |-> OrZero(parseFloatCell(rows[i].lcg)),
                          tcg |-> OrZero(parseFloatCell(rows[i].tcg)),
                          vcg |-> OrZero(parseFloatCell(rows[i].vcg)),
                          iy |-> OrZero(parseFloatCell(rows[i].iy)),
                          interpolation_used |-> "none",
                          interpolation_bounds |-> <<>>]) : i \in 1..Len(rows)}
        \* SELECT ... WHERE ullage IN ($2, $3) ORDER BY ullage
        ullageOnly(lowerUllage, upperUllage, rows) ==
            IF Len(rows) # 2
            THEN {Throw(Msg("Insufficient data for ullage interpolation", NaN, NaN))}
            ELSE
                LET iv(prop) == interpolateValue(rows[1], rows[2], lowerUllage,
                                                 upperUllage, targetUllage, prop)
                IN  {Return([volume |-> iv(trimColumn),
                             sound |-> OrNull(MathRound(iv("sound"))),
                             ullage |-> parseFloatField(targetUllage),
                             lcg |-> iv("lcg"),
                             tcg |-> iv("tcg"),
                             vcg |-> iv("vcg"),
                             iy |-> iv("iy"),
                             interpolation_used |-> "ullage_only",
                             interpolation_bounds |->
                                 UllageBoundsOnly(lowerUllage, upperUllage)])}
        resolved(ullageBounds) ==
            IF ullageBounds.outOfRange THEN {Throw(ullageBounds.message)}
            ELSE IF ullageBounds.exact
            THEN exactMatch(SelectWhere(table, {ullageBounds.ullage}))
            ELSE ullageOnly(ullageBounds.lowerUllage, ullageBounds.upperUllage,
                            SelectIn(table, ullageBounds.lowerUllage,
                                     ullageBounds.upperUllage))
    IN  resolved(getUllageBounds(table, targetUllage))

getSoundingDataWithInterpolation(table, targetUllage, targetTrim) ==
    LET \* trim bracketed, ullageBounds.exact
        trimOnly(lowerTrim, upperTrim, rows) ==
            IF Len(rows) = 0
            THEN {Throw(Msg("No data found for exact ullage match", NaN, NaN))}
            ELSE {Return([volume |-> linearInterpolate(
                              lowerTrim.value,
                              OrZero(parseFloatCell(rows[i][lowerTrim.column])),
                              upperTrim.value,
                              OrZero(parseFloatCell(rows[i][upperTrim.column])),
                              parseFloatField(targetTrim)),
                          sound |-> OrNull(parseFloatCell(rows[i].sound)),
                          ullage |-> parseFloatField(targetUllage),
                          lcg |-> OrZero(parseFloatCell(rows[i].lcg)),
                          tcg |-> OrZero(parseFloatCell(rows[i].tcg)),
                          vcg |-> OrZero(parseFloatCell(rows[i].vcg)),
                          iy |-> OrZero(parseFloatCell(rows[i].iy)),
                          interpolation_used |-> "trim_only",
                          interpolation_bounds |-> <<>>]) : i \in 1..Len(rows)}
        \* trim bracketed, ullage bracketed
        bilinear(lowerTrim, upperTrim, lowerUllage, upperUllage, rows) ==
            IF Len(rows) # 2
            THEN {Throw(Msg("Insufficient data for bilinear interpolation", NaN, NaN))}
            ELSE
                LET lowerUllageRow == rows[1]
                    upperUllageRow == rows[2]
                    volumeAtLowerUllage == linearInterpolate(
                        lowerTrim.value,
                        OrZero(parseFloatCell(lowerUllageRow[lowerTrim.column])),
                        upperTrim.value,
                        OrZero(parseFloatCell(lowerUllageRow[upperTrim.column])),
                        parseFloatField(targetTrim))
                    volumeAtUpperUllage == linearInterpolate(
                        lowerTrim.value,
                        OrZero(parseFloatCell(upperUllageRow[lowerTrim.column])),
                        upperTrim.value,
                        OrZero(parseFloatCell(upperUllageRow[upperTrim.column])),
                        parseFloatField(targetTrim))
                    finalVolume_ == linearInterpolate(
                        lowerUllage, volumeAtLowerUllage,
                        upperUllage, volumeAtUpperUllage,
                        parseFloatField(targetUllage))
                    ip(prop) == interpolateValue(lowerUllageRow, upperUllageRow,
                                    lowerUllage, upperUllage, targetUllage, prop)
                IN  {Return([volume |-> finalVolume_,
                             sound |-> OrNull(MathRound(ip("sound"))),
                             ullage |-> parseFloatField(targetUllage),
                             lcg |-> ip("lcg"),
                             tcg |-> ip("tcg"),
                             vcg |-> ip("vcg"),
                             iy |-> ip("iy"),
                             interpolation_used |-> "bilinear",
                             interpolation_bounds |-> UllageTrimBounds(
                                 lowerUllage, upperUllage,
                                 lowerTrim.value, upperTrim.value)])}
        bracketed(lowerTrim, upperTrim, ullageBounds) ==
            IF ullageBounds.outOfRange THEN {Throw(ullageBounds.message)}
            ELSE IF ullageBounds.exact
            THEN trimOnly(lowerTrim, upperTrim,
                          SelectWhere(table, {ullageBounds.ullage}))
            ELSE bilinear(lowerTrim, upperTrim,
                          ullageBounds.lowerUllage, ullageBounds.upperUllage,
                          SelectIn(table, ullageBounds.lowerUllage,
                                   ullageBounds.upperUllage))
        resolved(trimBounds) ==
            IF trimBounds.outOfRange THEN {Throw(trimBounds.message)}
            ELSE IF trimBounds.exact THEN
                getSoundingWithUllageInterpolation(table, targetUllage,
                                                   trimBounds.column, targetTrim)
            ELSE bracketed(trimBounds.lower, trimBounds.upper,
                           getUllageBounds(table, targetUllage))
    IN  resolved(getTrimBounds(targetTrim))

----------------------------------------------------------------------------
(* Composite Query Resolver, getCompleteSoundingData, in the three steps   *)
(* its two awaits cut it into.                                             *)

\* (mutant) the test `targetHeel !== 0` is missing
HeelRequestedNotNull(targetHeel) ==
    targetHeel[1] # "undefined" /\ targetHeel[1] # "null"

\* targetHeel !== undefined && targetHeel !== null && targetHeel !== 0
HeelRequested(targetHeel) ==
    /\ targetHeel[1] # "undefined"
    /\ targetHeel[1] # "null"
    /\ ~(targetHeel[1] = "number" /\ StrictEq(targetHeel[2], Zero))

\* (mutant) the catch block drops the message
HeelCaughtSilently(message) ==
    [heel_correction |-> Zero, interpolation_used |-> <<>>,
     interpolation_bounds |-> <<>>, error |-> <<>>]

\* the catch block: { error: heelError.message, heel_correction: 0 }
HeelCaught(message) ==
    [heel_correction |-> Zero, interpolation_used |-> <<>>,
     interpolation_bounds |-> <<>>, error |-> <<message>>]

\* (mutant) the correction is subtracted
CorrectedVolumeSubtracted(volume, heel_correction) == Sub(volume, heel_correction)

\* finalVolume = baseSoundingData.volume + heelCorrectionData.heel_correction
CorrectedVolume(volume, heel_correction) == Add(volume, heel_correction)

\* (mutant) the heel block is built only when the heel evaluator named the
\* interpolation it used, so a caught failure leaves it null
CompleteSoundingDataTypedOnly(base, heelData, finalVol) ==
    [base_volume |-> base.volume,
     heel_correction |-> IF heelData # <<>> THEN heelData[1].heel_correction ELSE Zero,
     final_volume |-> finalVol,
     sound |-> base.sound,
     ullage |-> base.ullage,
     lcg |-> base.lcg,
     tcg |-> base.tcg,
     vcg |-> base.vcg,
     iy |-> base.iy,
     main_interpolation |-> [type |-> base.interpolation_used,
                             bounds |-> base.interpolation_bounds],
     heel_interpolation |->
        IF heelData # <<>> /\ heelData[1].interpolation_used # <<>>
        THEN <<[type |-> heelData[1].interpolation_used[1],
                bounds |-> heelData[1].interpolation_bounds,
                error |-> heelData[1].error]>>
        ELSE <<>>]

\* (mutant) base_volume reports the volume after the heel correction
CompleteSoundingDataCorrectedBase(base, heelData, finalVol) ==
    [base_volume |-> finalVol,
     heel_correction |-> IF heelData # <<>> THEN heelData[1].heel_correction ELSE Zero,
     final_volume |-> finalVol,
     sound |-> base.sound,
     ullage |-> base.ullage,
     lcg |-> base.lcg,
     tcg |-> base.tcg,
     vcg |-> base.vcg,
     iy |-> base.iy,
     main_interpolation |-> [type |-> base.interpolation_used,
                             bounds |-> base.interpolation_bounds],
     heel_interpolation |->
        IF heelData # <<>>
        THEN <<[type |-> IF heelData[1].interpolation_used # <<>>
                         THEN heelData[1].interpolation_used[1] ELSE "error",
                bounds |-> heelData[1].interpolation_bounds,
                error |-> heelData[1].error]>>
        ELSE <<>>]

\* the object getCompleteSoundingData returns; heelData is <<>> for null
CompleteSoundingData(base, heelData, finalVol) ==
    [base_volume |-> base.volume,
     heel_correction |-> IF heelData # <<>> THEN heelData[1].heel_correction ELSE Zero,
     final_volume |-> finalVol,
     sound |-> base.sound,
     ullage |-> base.ullage,
     lcg |-> base.lcg,
     tcg |-> base.tcg,
     vcg |-> base.vcg,
     iy |-> base.iy,
     main_interpolation |-> [type |-> base.interpolation_used,
                             bounds |-> base.interpolation_bounds],
     heel_interpolation |->
        IF heelData # <<>>
        THEN <<[type |-> IF heelData[1].interpolation_used # <<>>
                         THEN heelData[1].interpolation_used[1] ELSE "error",
                bounds |-> heelData[1].interpolation_bounds,
                error |-> heelData[1].error]>>
        ELSE <<>>]

----------------------------------------------------------------------------
(* The datasets the requests are served from.                              *)

TrimIndex(column) == CHOOSE i \in 1..Len(trimRanges) : trimRanges[i].column = column
HeelIndex(column) == CHOOSE i \in 1..Len(heelRanges) : heelRanges[i].column = column

TrimColumns == {trimRanges[i].column : i \in 1..Len(trimRanges)}
HeelColumns == {heelRanges[i].column : i \in 1..Len(heelRanges)}
Attributes == {"sound", "lcg", "tcg", "vcg", "iy"}

\* a row of main_sounding_trim_data: volume[i] is the cell of the i-th trim column
SoundingRow(ullage, volume, sound, lcg, tcg, vcg, iy) ==
    [c \in {"ullage"} \cup TrimColumns \cup Attributes |->
        IF c = "ullage" THEN <<ullage>>
        ELSE IF c = "sound" THEN sound
        ELSE IF c = "lcg" THEN lcg
        ELSE IF c = "tcg" THEN tcg
        ELSE IF c = "vcg" THEN vcg
        ELSE IF c = "iy" THEN iy
        ELSE volume[TrimIndex(c)]]

\* a row of heel_correction_data
HeelRow(ullage, correction) ==
    [c \in {"ullage"} \cup HeelColumns |->
        IF c = "ullage" THEN <<ullage>> ELSE correction[HeelIndex(c)]]

\* ullage rows 100 and 200 with trim_0_0 = 50.0 and 70.0, trim_plus_0_5 = 54.0
\* in the first; stored with the larger ullage first
TableA ==
    LET v1 == [i \in 1..Len(trimRanges) |-> <<R(50 + 3 * (i - 7) + (i - 7) * (i - 7), 1)>>]
        v2 == [i \in 1..Len(trimRanges) |-> <<R(700 + 45 * (i - 7) + 20 * (i - 7) * (i - 7), 10)>>]
    IN  << SoundingRow(R(200, 1), v2, <<R(35, 1)>>, <<R(121, 10)>>, <<R(-3, 10)>>,
                       <<R(22, 10)>>, <<R(410, 1)>>),
           SoundingRow(R(100, 1), v1, <<R(140, 1)>>, <<R(118, 10)>>, <<R(-1, 2)>>,
                       <<R(31, 10)>>, <<R(395, 1)>>) >>

\* unevenly spaced rows 100, 250, 300, stored out of order; a stored sound
\* of 0; sounds that interpolate to less than one half; NULL cells
TableB ==
    LET v1 == [i \in 1..Len(trimRanges) |-> IF i = 9 THEN <<>> ELSE <<R(905 - 7 * i - i * i, 10)>>]
        v2 == [i \in 1..Len(trimRanges) |-> <<R(640 - 11 * i + 2 * i * i, 10)>>]
        v3 == [i \in 1..Len(trimRanges) |-> IF i = 7 THEN <<R(0, 1)>> ELSE <<R(13 * i, 100)>>]
    IN  << SoundingRow(R(250, 1), v2, <<R(0, 1)>>, <<R(99, 10)>>, <<R(2, 10)>>,
                       <<R(35, 10)>>, <<R(320, 1)>>),
           SoundingRow(R(100, 1), v1, <<R(1, 1)>>, <<R(97, 10)>>, <<>>,
                       <<R(40, 10)>>, <<R(300, 1)>>),
           SoundingRow(R(300, 1), v3, <<>>, <<R(104, 10)>>, <<R(6, 10)>>,
                       <<>>, <<R(0, 1)>>) >>

\* a corrupt dataset: two rows share the ullage 100
TableDup ==
    LET v1 == [i \in 1..Len(trimRanges) |-> <<R(50 + 2 * i, 1)>>]
        v2 == [i \in 1..Len(trimRanges) |-> <<R(51 + 3 * i, 1)>>]
        v3 == [i \in 1..Len(trimRanges) |-> <<R(90 + i * i, 1)>>]
    IN  << SoundingRow(R(100, 1), v1, <<R(140, 1)>>, <<R(10, 1)>>, <<R(1, 1)>>,
                       <<R(3, 1)>>, <<R(400, 1)>>),
           SoundingRow(R(100, 1), v2, <<R(141, 1)>>, <<R(11, 1)>>, <<R(2, 1)>>,
                       <<R(4, 1)>>, <<R(401, 1)>>),
           SoundingRow(R(250, 1), v3, <<R(20, 1)>>, <<R(12, 1)>>, <<R(1, 1)>>,
                       <<R(2, 1)>>, <<R(420, 1)>>) >>

SoundingTables == {TableA, TableB, TableDup, <<>>}

\* the heel table has its own ullages: 150, 200, 300, stored out of order
HeelTableA ==
    LET c1 == [j \in 1..Len(heelRanges) |-> <<R((j - 6) * (j - 6) * (j - 6) - 2 * (j - 6), 10)>>]
        c2 == [j \in 1..Len(heelRanges) |-> IF j = 8 THEN <<>> ELSE <<R(3 * (j - 6) + (j - 6) * (j - 6), 10)>>]
        c3 == [j \in 1..Len(heelRanges) |-> <<R(-5 * (j - 6), 100)>>]
    IN  << HeelRow(R(200, 1), c2), HeelRow(R(150, 1), c1), HeelRow(R(300, 1), c3) >>

\* a corrupt heel dataset: two rows share the ullage 250
HeelTableDup ==
    LET c1 == [j \in 1..Len(heelRanges) |-> <<R(j - 6, 10)>>]
        c2 == [j \in 1..Len(heelRanges) |-> <<R(2 * (j - 6) + 1, 10)>>]
        c3 == [j \in 1..Len(heelRanges) |-> <<R((j - 6) * (j - 6), 10)>>]
    IN  << HeelRow(R(100, 1), c1), HeelRow(R(250, 1), c2), HeelRow(R(250, 1), c3) >>

HeelTables == {HeelTableA, HeelTableDup, <<>>}

----------------------------------------------------------------------------
(* The requests.                                                           *)

\* ullages asked for: 0, 50, ..., 50 * MaxUllageSteps, and the ullages one
\* unit outside the stored ranges of the datasets
MaxUllageSteps == 6
\* trims asked for: every half from -MaxTrimHalves/2 to MaxTrimHalves/2, and
\* the quarters around zero
MaxTrimHalves == 10
\* heels asked for: every half from -MaxHeelHalves/2 to MaxHeelHalves/2, the
\* quarters around zero, null and undefined
MaxHeelHalves == 8

UllageInputs == {Num(R(50 * k, 1)) : k \in 0..MaxUllageSteps}
                \cup {Num(R(k, 1)) : k \in {99, 149, 201, 251, 301}}
TrimInputs == {Num(R(k, 2)) : k \in (-MaxTrimHalves)..MaxTrimHalves}
              \cup {Num(R(-1, 4)), Num(R(1, 4))}
HeelInputs == {Num(R(k, 2)) : k \in (-MaxHeelHalves)..MaxHeelHalves}
              \cup {Num(R(-1, 4)), Num(R(1, 4)), Null, Undefined}

----------------------------------------------------------------------------
(* exports.handler, route POST /sounding.                                  *)

Init ==
    /\ soundingTable \in SoundingTables
    /\ heelTable \in HeelTables
    /\ pc = "idle"
    /\ body = [ullage |-> Undefined, trim |-> Undefined, heel |-> Undefined]
    /\ baseSoundingData = <<>>
    /\ heelCorrectionData = <<>>
    /\ finalVolume = NaN
    /\ response = <<>>
    /\ db = EmptyDb
    /\ calls = NoCalls

\* a request with ullage and trim present reaches getCompleteSoundingData
Request ==
    /\ pc = "idle"
    /\ \E u \in UllageInputs, t \in TrimInputs, h \in HeelInputs :
          body' = [ullage |-> u, trim |-> t, heel |-> h]
    /\ pc' = "sounding"
    /\ baseSoundingData' = <<>>
    /\ heelCorrectionData' = <<>>
    /\ finalVolume' = NaN
    /\ response' = <<>>
    /\ UNCHANGED <<db, calls, soundingTable, heelTable>>

\* ullage === undefined || trim === undefined: answered 400
BadRequest ==
    /\ pc = "idle"
    /\ \E u \in {Undefined, Num(R(100, 1))}, t \in {Undefined, Num(Zero)} :
          /\ u = Undefined \/ t = Undefined
          /\ body' = [ullage |-> u, trim |-> t, heel |-> Undefined]
    /\ pc' = "done"
    /\ response' = <<[statusCode |-> 400, success |-> FALSE, data |-> <<>>,
                      error |-> <<Msg("Missing required parameters: compartment_id, ullage, trim",
                                      NaN, NaN)>>]>>
    /\ baseSoundingData' = <<>>
    /\ heelCorrectionData' = <<>>
    /\ finalVolume' = NaN
    /\ UNCHANGED <<db, calls, soundingTable, heelTable>>

\* const baseSoundingData = await getSoundingDataWithInterpolation(...);
\* let heelCorrectionData = null; let finalVolume = baseSoundingData.volume;
SoundingStage ==
    /\ pc = "sounding"
    /\ \E o \in getSoundingDataWithInterpolation(soundingTable, body.ullage, body.trim) :
          /\ ~o.threw
          /\ baseSoundingData' = o.value
          /\ finalVolume' = o.value[1].volume
    /\ heelCorrectionData' = <<>>
    /\ pc' = "heel"
    /\ UNCHANGED <<db, calls, soundingTable, heelTable, body, response>>

\* (mutant) the two evaluators were started together: the heel stage has
\* run by the time the sounding stage throws
SoundingFailsHeelRan ==
    /\ pc = "sounding"
    /\ \E o \in getSoundingDataWithInterpolation(soundingTable, body.ullage, body.trim) :
          /\ o.threw
          /\ response' = <<[statusCode |-> 404, success |-> FALSE, data |-> <<>>,
                            error |-> <<o.message>>]>>
          /\ heelCorrectionData' = <<HeelCaught(o.message)>>
    /\ pc' = "done"
    /\ UNCHANGED <<db, calls, soundingTable, heelTable, body, baseSoundingData, finalVolume>>

\* the sounding stage throws: the handler's catch answers 404 with the message
SoundingFails ==
    /\ pc = "sounding"
    /\ \E o \in getSoundingDataWithInterpolation(soundingTable, body.ullage, body.trim) :
          /\ o.threw
          /\ response' = <<[statusCode |-> 404, success |-> FALSE, data |-> <<>>,
                            error |-> <<o.message>>]>>
    /\ pc' = "done"
    /\ UNCHANGED <<db, calls, soundingTable, heelTable, body, baseSoundingData,
                   heelCorrectionData, finalVolume>>

\* the heel block is entered and getHeelCorrectionWithInterpolation returns
HeelStage ==
    /\ pc = "heel"
    /\ HeelRequested(body.heel)
    /\ \E o \in getHeelCorrectionWithInterpolation(heelTable, body.ullage, body.heel) :
          /\ ~o.threw
          /\ heelCorrectionData' = o.value
          /\ finalVolume' = CorrectedVolume(baseSoundingData[1].volume,
                                            o.value[1].heel_correction)
    /\ pc' = "return"
    /\ UNCHANGED <<db, calls, soundingTable, heelTable, body, baseSoundingData, response>>

\* the heel block is entered and getHeelCorrectionWithInterpolation throws
HeelFails ==
    /\ pc = "heel"
    /\ HeelRequested(body.heel)
    /\ \E o \in getHeelCorrectionWithInterpolation(heelTable, body.ullage, body.heel) :
          /\ o.threw
          /\ heelCorrectionData' = <<HeelCaught(o.message)>>
    /\ pc' = "return"
    /\ UNCHANGED <<db, calls, soundingTable, heelTable, body, baseSoundingData,
                   finalVolume, response>>

\* the heel block is skipped
HeelSkipped ==
    /\ pc = "heel"
    /\ ~HeelRequested(body.heel)
    /\ pc' = "return"
    /\ UNCHANGED <<db, calls, soundingTable, heelTable, body, baseSoundingData,
                   heelCorrectionData, finalVolume, response>>

\* getCompleteSoundingData returns and the handler answers 200
Respond ==
    /\ pc = "return"
    /\ response' = <<[statusCode |-> 200, success |-> TRUE,
                      data |-> <<CompleteSoundingData(baseSoundingData[1],
                                     heelCorrectionData, finalVolume)
                                 @@ [trim |-> parseFloatField(body.trim),
                                     heel |-> IF body.heel[1] # "undefined"
                                              THEN OrNaNNull(body.heel) ELSE <<>>]>>,
                      error |-> <<>>]>>
    /\ pc' = "done"
    /\ UNCHANGED <<db, calls, soundingTable, heelTable, body, baseSoundingData,
                   heelCorrectionData, finalVolume>>

\* the invocation is over and its locals are gone; the next request can be
\* served
Finish ==
    /\ pc = "done"
    /\ pc' = "idle"
    /\ body' = [ullage |-> Undefined, trim |-> Undefined, heel |-> Undefined]
    /\ baseSoundingData' = <<>>
    /\ heelCorrectionData' = <<>>
    /\ finalVolume' = NaN
    /\ response' = <<>>
    /\ UNCHANGED <<db, calls, soundingTable, heelTable>>

Next ==
    \/ Request
    \/ BadRequest
    \/ SoundingStage
    \/ SoundingFails
    \/ HeelStage
    \/ HeelFails
    \/ HeelSkipped
    \/ Respond
    \/ Finish

Spec == Init /\ [][Next]_vars

----------------------------------------------------------------------------
(* Vocabulary of the properties: the query, the answer, and the values the *)
(* calibration data prescribes, computed from the tables alone.            *)

Answered == pc = "done" /\ response # <<>>
Succeeded == Answered /\ response[1].statusCode = 200
Failed == Answered /\ response[1].statusCode = 404
Data == response[1].data[1]

HeelAbsent == body.heel \in {Undefined, Null}

\* the rows of a table stored under ullage u
RowsAt(table, u) == {table[i] : i \in {j \in 1..Len(table) : table[j].ullage = <<u>>}}
RowCount(table, u) == Cardinality({j \in 1..Len(table) : table[j].ullage = <<u>>})
StoredUllages(table) == {table[i].ullage[1] : i \in 1..Len(table)}

\* lo and hi are neighbouring stored ullages and u lies strictly between them
UllageBracketed(table, lo, hi, u) ==
    /\ lo \in StoredUllages(table) /\ hi \in StoredUllages(table)
    /\ Lt(lo, u) /\ Lt(u, hi)
    /\ ~\E m \in StoredUllages(table) : Lt(lo, m) /\ Lt(m, hi)

\* t lies strictly between the axis points i and i + 1
AxisBracketed(ranges, i, t) ==
    /\ i \in 1..(Len(ranges) - 1)
    /\ Lt(ranges[i].value, t) /\ Lt(t, ranges[i + 1].value)

\* the value at x of the straight line through (x1, y1) and (x2, y2), as the
\* weighted mean of y1 and y2
Lerp(x1, y1, x2, y2, x) ==
    Div(Add(Mul(y1, Sub(x2, x)), Mul(y2, Sub(x, x1))), Sub(x2, x1))

\* C1: exact-match identity.  A query (u, t, heel absent) whose ullage u is
\* stored and whose trim t is one of the 13 axis values is answered with
\* base_volume equal to the number stored in a row of ullage u under the
\* column bound to t, and with main provenance type 'none'.
C1_ExactMatchIdentity ==
    (pc = "done" /\ HeelAbsent) =>
    \A i \in 1..Len(trimRanges) : \A u \in StoredUllages(soundingTable) :
        ( /\ body.ullage = Num(u) /\ body.trim = Num(trimRanges[i].value)
          /\ \A row \in RowsAt(soundingTable, u) : row[trimRanges[i].column] # <<>> )
        => /\ Succeeded
           /\ \E row \in RowsAt(soundingTable, u) :
                 Data.base_volume = row[trimRanges[i].column][1]
           /\ Data.main_interpolation.type = "none"

C1_Witness ==
    /\ Succeeded /\ soundingTable = TableB /\ HeelAbsent
    /\ body.ullage = Num(R(250, 1)) /\ body.trim = Num(R(-3, 2))
    /\ Data.base_volume = R(628, 10)

\* C2: exact trim x bracketed ullage.  When the trim is an axis value and the
\* ullage lies strictly between two neighbouring stored ullages lo < u < hi,
\* base_volume is the linear interpolation across lo and hi of the two rows'
\* values in that trim column and main provenance type is 'ullage_only'; at
\* the mean ullage that is (v1 + v2) / 2; rows 100 -> 50.0 and 200 -> 70.0 at
\* trim 0.0 and ullage 150 give base_volume = final_volume = 60.0.
C2_ExactTrimBracketedUllage ==
    pc = "done" =>
    /\ \A i \in 1..Len(trimRanges) :
       \A lo \in StoredUllages(soundingTable), hi \in StoredUllages(soundingTable) :
       \A r1 \in RowsAt(soundingTable, lo), r2 \in RowsAt(soundingTable, hi) :
         LET col == trimRanges[i].column
             u == body.ullage[2]
         IN ( /\ body.trim = Num(trimRanges[i].value)
              /\ body.ullage[1] = "number"
              /\ UllageBracketed(soundingTable, lo, hi, u)
              /\ RowCount(soundingTable, lo) = 1 /\ RowCount(soundingTable, hi) = 1
              /\ r1[col] # <<>> /\ r2[col] # <<>> )
            => /\ Succeeded
               /\ Data.base_volume = Lerp(lo, r1[col][1], hi, r2[col][1], u)
               /\ Data.main_interpolation.type = "ullage_only"
               /\ (Add(u, u) = Add(lo, hi)
                     => Add(Data.base_volume, Data.base_volume)
                            = Add(r1[col][1], r2[col][1]))
    /\ ( /\ soundingTable = TableA /\ HeelAbsent
         /\ body.ullage = Num(R(150, 1)) /\ body.trim = Num(R(0, 1)) )
       => /\ Succeeded
          /\ Data.base_volume = R(60, 1) /\ Data.final_volume = R(60, 1)
          /\ Data.main_interpolation.type = "ullage_only"

C2_Witness ==
    /\ Succeeded /\ soundingTable = TableB
    /\ body.ullage = Num(R(150, 1)) /\ body.trim = Num(R(2, 1))
    /\ Data.main_interpolation.type = "ullage_only"
    /\ Data.base_volume = Lerp(R(100, 1), R(707, 10), R(250, 1), R(761, 10), R(150, 1))

\* C3: bracketed trim x exact ullage.  When the ullage is stored and the trim
\* lies strictly between two neighbouring axis values, base_volume is the
\* linear interpolation between the two bracketing trim columns of a row of
\* that ullage, lcg, tcg, vcg and iy are the numbers stored in that row, and
\* main provenance type is 'trim_only'; trim_0_0 = 50.0 and
\* trim_plus_0_5 = 54.0 at trim 0.25 give 52.0.
C3_BracketedTrimExactUllage ==
    pc = "done" =>
    /\ \A i \in 1..(Len(trimRanges) - 1) : \A u \in StoredUllages(soundingTable) :
         LET lc == trimRanges[i].column
             uc == trimRanges[i + 1].column
             t == body.trim[2]
         IN ( /\ body.ullage = Num(u)
              /\ body.trim[1] = "number" /\ AxisBracketed(trimRanges, i, t)
              /\ \A row \in RowsAt(soundingTable, u) : row[lc] # <<>> /\ row[uc] # <<>> )
            => /\ Succeeded
               /\ Data.main_interpolation.type = "trim_only"
               /\ \E row \in RowsAt(soundingTable, u) :
                     /\ Data.base_volume = Lerp(trimRanges[i].value, row[lc][1],
                                                trimRanges[i + 1].value, row[uc][1], t)
                     /\ \A a \in {"lcg", "tcg", "vcg", "iy"} :
                           row[a] # <<>> => Data[a] = row[a][1]
    /\ ( /\ soundingTable = TableA /\ HeelAbsent
         /\ body.ullage = Num(R(100, 1)) /\ body.trim = Num(R(1, 4)) )
       => Succeeded /\ Data.base_volume = R(52, 1)

C3_Witness ==
    /\ Succeeded /\ soundingTable = TableA
    /\ body.ullage = Num(R(200, 1)) /\ body.trim = Num(R(-7, 2))
    /\ Data.main_interpolation.type = "trim_only"
    /\ Data.lcg = R(121, 10) /\ Data.tcg = R(-3, 10)
    /\ Data.base_volume = R(425, 4)

\* C4: bilinear case.  When both the trim and the ullage are strictly
\* bracketed, base_volume is the interpolation across the ullage bracket of
\* the two volumes obtained by interpolating across the two bracketing trim
\* columns within the lower and within the upper ullage row, and main
\* provenance type is 'bilinear'.
C4_Bilinear ==
    pc = "done" =>
    \A i \in 1..(Len(trimRanges) - 1) :
    \A lo \in StoredUllages(soundingTable), hi \in StoredUllages(soundingTable) :
    \A r1 \in RowsAt(soundingTable, lo), r2 \in RowsAt(soundingTable, hi) :
        LET lc == trimRanges[i].column
            uc == trimRanges[i + 1].column
            tl == trimRanges[i].value
            tu == trimRanges[i + 1].value
            t == body.trim[2]
            u == body.ullage[2]
        IN ( /\ body.trim[1] = "number" /\ body.ullage[1] = "number"
             /\ AxisBracketed(trimRanges, i, t)
             /\ UllageBracketed(soundingTable, lo, hi, u)
             /\ RowCount(soundingTable, lo) = 1 /\ RowCount(soundingTable, hi) = 1
             /\ r1[lc] # <<>> /\ r1[uc] # <<>> /\ r2[lc] # <<>> /\ r2[uc] # <<>> )
           => /\ Succeeded
              /\ Data.main_interpolation.type = "bilinear"
              /\ Data.base_volume =
                    Lerp(lo, Lerp(tl, r1[lc][1], tu, r1[uc][1], t),
                         hi, Lerp(tl, r2[lc][1], tu, r2[uc][1], t), u)

C4_Witness ==
    /\ Succeeded /\ soundingTable = TableB
    /\ body.ullage = Num(R(251, 1)) /\ body.trim = Num(R(5, 2))
    /\ Data.main_interpolation.type = "bilinear"
    /\ Data.base_volume # Data.final_volume

----------------------------------------------------------------------------
(* When the stages must fail, stated on the query and the tables alone.    *)

QueryPresent == body.ullage[1] = "number" /\ body.trim[1] = "number"
qUllage == body.ullage[2]
qTrim == body.trim[2]
qHeel == body.heel[2]

MinUllage(table) == CHOOSE m \in StoredUllages(table) :
                        \A v \in StoredUllages(table) : Le(m, v)
MaxUllage(table) == CHOOSE m \in StoredUllages(table) :
                        \A v \in StoredUllages(table) : Le(v, m)

AxisMin(ranges) == ranges[1].value
AxisMax(ranges) == ranges[Len(ranges)].value
OnAxis(ranges, v) == \E i \in 1..Len(ranges) : ranges[i].value = v

\* the ullage is bracketed and a bracketing ullage is stored in several rows
RowCountWrong(table, u) ==
    \E lo \in StoredUllages(table), hi \in StoredUllages(table) :
        /\ UllageBracketed(table, lo, hi, u)
        /\ RowCount(table, lo) # 1 \/ RowCount(table, hi) # 1

\* the error the sounding stage must end with, if any: the trim is resolved
\* first, then the ullage, then the rows are fetched
SoundingErrors ==
    IF Lt(qTrim, AxisMin(trimRanges))
    THEN {Msg("Trim ${target} is below minimum supported trim ${min}",
              qTrim, R(-4, 1))}
    ELSE IF Gt(qTrim, AxisMax(trimRanges))
    THEN {Msg("Trim ${target} is above maximum supported trim ${max}",
              qTrim, R(4, 1))}
    ELSE IF soundingTable = <<>>
    THEN {Msg("No ullage data found for this compartment", NaN, NaN)}
    ELSE IF Lt(qUllage, MinUllage(soundingTable))
    THEN {Msg("Ullage ${target} is below minimum ullage ${min}",
              qUllage, MinUllage(soundingTable))}
    ELSE IF Gt(qUllage, MaxUllage(soundingTable))
    THEN {Msg("Ullage ${target} is above maximum ullage ${max}",
              qUllage, MaxUllage(soundingTable))}
    ELSE IF RowCountWrong(soundingTable, qUllage)
    THEN {Msg(IF OnAxis(trimRanges, qTrim)
              THEN "Insufficient data for ullage interpolation"
              ELSE "Insufficient data for bilinear interpolation", NaN, NaN)}
    ELSE {}

\* the heel is a number other than zero
HeelNonZero == body.heel[1] = "number" /\ qHeel # Zero

\* the error the heel stage must end with, if any
HeelErrors ==
    IF Lt(qHeel, AxisMin(heelRanges))
    THEN {Msg("Heel ${target} is below minimum supported heel ${min}",
              qHeel, R(-3, 1))}
    ELSE IF Gt(qHeel, AxisMax(heelRanges))
    THEN {Msg("Heel ${target} is above maximum supported heel ${max}",
              qHeel, R(3, 1))}
    ELSE IF heelTable = <<>>
    THEN {Msg("No heel ullage data found for this compartment", NaN, NaN)}
    ELSE IF Lt(qUllage, MinUllage(heelTable))
    THEN {Msg("Ullage ${target} is below minimum heel correction ullage ${min}",
              qUllage, MinUllage(heelTable))}
    ELSE IF Gt(qUllage, MaxUllage(heelTable))
    THEN {Msg("Ullage ${target} is above maximum heel correction ullage ${max}",
              qUllage, MaxUllage(heelTable))}
    ELSE IF RowCountWrong(heelTable, qUllage)
    THEN {Msg(IF OnAxis(heelRanges, qHeel)
              THEN "Insufficient heel correction data for ullage interpolation"
              ELSE "Insufficient heel correction data for bilinear interpolation",
              NaN, NaN)}
    ELSE {}

\* the object getCompleteSoundingData returned, without the fields the
\* handler adds to it
ResolverResult == [f \in (DOMAIN Data) \ {"trim", "heel"} |-> Data[f]]

\* the results a query without heel correction can be given: they are
\* computed from the sounding table, the ullage and the trim alone
HeelFreeResults ==
    {CompleteSoundingData(o.value[1], <<>>, o.value[1].volume) :
        o \in {x \in getSoundingDataWithInterpolation(soundingTable, body.ullage,
                                                       body.trim) : ~x.threw}}

\* C5: heel-zero identity.  For every in-range (ullage, trim) a query with
\* heel = 0 and a query with heel absent (undefined or null) are answered
\* from the same set of results, which does not depend on the heel: with
\* heel_correction = 0, final_volume = base_volume and the heel
\* interpolation block null; the Heel Correction Evaluator is not run.
C5_HeelZeroIdentity ==
    ( /\ pc \in {"return", "done"} /\ QueryPresent /\ SoundingErrors = {}
      /\ body.heel \in {Num(Zero), Undefined, Null} )
    => /\ heelCorrectionData = <<>>
       /\ pc = "done" =>
            /\ Succeeded
            /\ Data.heel_correction = Zero
            /\ Data.final_volume = Data.base_volume
            /\ Data.heel_interpolation = <<>>
            /\ ResolverResult \in HeelFreeResults

C5_Witness ==
    /\ Succeeded /\ body.heel = Num(Zero) /\ heelTable = HeelTableA
    /\ soundingTable = TableA /\ body.ullage = Num(R(200, 1))
    /\ body.trim = Num(R(1, 4))
    /\ Data.final_volume = Data.base_volume /\ Data.heel_interpolation = <<>>

\* C6: partial-failure isolation.  When the sounding stage succeeds and the
\* heel stage fails (heel outside [-3.0, 3.0], ullage outside the heel
\* table's range, empty heel table, wrong row count), the query is still
\* answered with a Result, heel_correction = 0, final_volume = base_volume,
\* and the heel provenance block has type 'error' and carries the heel
\* stage's message.
C6_PartialFailureIsolation ==
    ( /\ pc = "done" /\ QueryPresent /\ SoundingErrors = {}
      /\ HeelNonZero /\ HeelErrors # {} )
    => /\ Succeeded
       /\ Data.heel_correction = Zero
       /\ Data.final_volume = Data.base_volume
       /\ ResolverResult.base_volume
            \in {r.base_volume : r \in HeelFreeResults}
       /\ Data.heel_interpolation # <<>>
       /\ Data.heel_interpolation[1].type = "error"
       /\ Data.heel_interpolation[1].error # <<>>
       /\ Data.heel_interpolation[1].error[1] \in HeelErrors

C6_Witness ==
    /\ Succeeded /\ soundingTable = TableB /\ heelTable = HeelTableDup
    /\ body.ullage = Num(R(150, 1)) /\ body.trim = Num(R(1, 2))
    /\ body.heel = Num(R(1, 4))
    /\ Data.heel_interpolation[1].type = "error"
    /\ Data.heel_interpolation[1].error[1].text
         = "Insufficient heel correction data for bilinear interpolation"
    /\ Data.final_volume = Data.base_volume /\ Data.base_volume # Zero

\* C7: sounding-stage failures are fatal.  When the trim is outside
\* [-4.0, 4.0], or the ullage is outside the sounding table's range, or the
\* sounding table is empty or yields a wrong row count, the query fails with
\* that error and no Result, and the heel stage is never reached, whatever
\* the heel and the heel table are.
C7_SoundingFailureFatal ==
    (QueryPresent /\ SoundingErrors # {})
    => /\ pc \notin {"heel", "return"}
       /\ baseSoundingData = <<>> /\ heelCorrectionData = <<>>
       /\ pc = "done" =>
            /\ Failed
            /\ response[1].data = <<>>
            /\ response[1].error # <<>>
            /\ response[1].error[1] \in SoundingErrors

C7_Witness ==
    /\ Failed /\ soundingTable = TableDup /\ heelTable = HeelTableA
    /\ body.ullage = Num(R(200, 1)) /\ body.trim = Num(R(0, 1))
    /\ body.heel = Num(R(1, 1))
    /\ response[1].error[1].text = "Insufficient data for ullage interpolation"

\* C8: inclusive bounds.  A query exactly at the minimum or maximum trim axis
\* value, heel axis value or stored ullage is resolved as an exact match on
\* that axis and succeeds; a query one unit below the minimum or above the
\* maximum on any of these axes is reported as out of range.
C8_InclusiveBounds ==
    (pc = "done" /\ QueryPresent) =>
    LET one == R(1, 1)
        trimOthers == soundingTable # <<>>
                      /\ Le(MinUllage(soundingTable), qUllage)
                      /\ Le(qUllage, MaxUllage(soundingTable))
                      /\ ~RowCountWrong(soundingTable, qUllage)
        ullageOthers == Le(AxisMin(trimRanges), qTrim) /\ Le(qTrim, AxisMax(trimRanges))
        heelOthers == heelTable # <<>>
                      /\ Le(MinUllage(heelTable), qUllage)
                      /\ Le(qUllage, MaxUllage(heelTable))
                      /\ ~RowCountWrong(heelTable, qUllage)
        heelUllageOthers == HeelNonZero /\ Le(AxisMin(heelRanges), qHeel)
                            /\ Le(qHeel, AxisMax(heelRanges))
    IN
    /\ (qTrim \in {AxisMin(trimRanges), AxisMax(trimRanges)} /\ trimOthers)
         => Succeeded /\ Data.main_interpolation.type \in {"none", "ullage_only"}
    /\ qTrim = Sub(AxisMin(trimRanges), one)
         => Failed /\ response[1].error[1] =
                Msg("Trim ${target} is below minimum supported trim ${min}",
                    R(-5, 1), R(-4, 1))
    /\ qTrim = Add(AxisMax(trimRanges), one)
         => Failed /\ response[1].error[1] =
                Msg("Trim ${target} is above maximum supported trim ${max}",
                    R(5, 1), R(4, 1))
    /\ (soundingTable # <<>> /\ ullageOthers) =>
        /\ qUllage \in {MinUllage(soundingTable), MaxUllage(soundingTable)}
             => Succeeded /\ Data.main_interpolation.type \in {"none", "trim_only"}
        /\ qUllage = Sub(MinUllage(soundingTable), one)
             => Failed /\ response[1].error[1] =
                    Msg("Ullage ${target} is below minimum ullage ${min}",
                        qUllage, MinUllage(soundingTable))
        /\ qUllage = Add(MaxUllage(soundingTable), one)
             => Failed /\ response[1].error[1] =
                    Msg("Ullage ${target} is above maximum ullage ${max}",
                        qUllage, MaxUllage(soundingTable))
    /\ SoundingErrors = {} =>
        /\ (qHeel \in {AxisMin(heelRanges), AxisMax(heelRanges)}
            /\ body.heel[1] = "number" /\ heelOthers)
             => /\ Succeeded /\ Data.heel_interpolation # <<>>
                /\ Data.heel_interpolation[1].type \in {"none", "ullage_only"}
                /\ Data.heel_interpolation[1].error = <<>>
        /\ (body.heel[1] = "number" /\ qHeel = Sub(AxisMin(heelRanges), one))
             => /\ Succeeded /\ Data.heel_interpolation # <<>>
                /\ Data.heel_interpolation[1].error = <<
                    Msg("Heel ${target} is below minimum supported heel ${min}",
                        R(-4, 1), R(-3, 1))>>
        /\ (body.heel[1] = "number" /\ qHeel = Add(AxisMax(heelRanges), one))
             => /\ Succeeded /\ Data.heel_interpolation # <<>>
                /\ Data.heel_interpolation[1].error = <<
                    Msg("Heel ${target} is above maximum supported heel ${max}",
                        R(4, 1), R(3, 1))>>
        /\ (heelTable # <<>> /\ heelUllageOthers) =>
            /\ qUllage \in {MinUllage(heelTable), MaxUllage(heelTable)}
                 => /\ Succeeded /\ Data.heel_interpolation # <<>>
                    /\ Data.heel_interpolation[1].type \in {"none", "heel_only"}
                    /\ Data.heel_interpolation[1].error = <<>>
            /\ qUllage = Sub(MinUllage(heelTable), one)
                 => /\ Succeeded /\ Data.heel_interpolation # <<>>
                    /\ Data.heel_interpolation[1].error = <<
                        Msg("Ullage ${target} is below minimum heel correction ullage ${min}",
                            qUllage, MinUllage(heelTable))>>
            /\ qUllage = Add(MaxUllage(heelTable), one)
                 => /\ Succeeded /\ Data.heel_interpolation # <<>>
                    /\ Data.heel_interpolation[1].error = <<
                        Msg("Ullage ${target} is above maximum heel correction ullage ${max}",
                            qUllage, MaxUllage(heelTable))>>

\* a query at the maximum trim, the maximum stored ullage and the minimum heel,
\* answered with exact matches on all three
C8_Witness ==
    /\ Succeeded /\ soundingTable = TableB /\ heelTable = HeelTableA
    /\ body.trim = Num(R(4, 1)) /\ body.ullage = Num(R(300, 1))
    /\ body.heel = Num(R(-3, 1))
    /\ Data.main_interpolation.type = "none"
    /\ Data.heel_interpolation[1].type = "none"
    /\ Data.heel_correction = R(1, 4)

\* C9: composition invariant.  Every Result satisfies final_volume =
\* base_volume + heel_correction, where heel_correction is a value of the
\* Heel Correction Evaluator when the heel is a number other than zero and
\* that evaluator succeeds, and 0 otherwise.
C9_Composition ==
    Succeeded =>
    /\ Sub(Data.final_volume, Data.base_volume) = Data.heel_correction
    /\ IF HeelNonZero /\ HeelErrors = {}
       THEN /\ heelCorrectionData # <<>>
            /\ Data.heel_correction = heelCorrectionData[1].heel_correction
            /\ \E o \in getHeelCorrectionWithInterpolation(heelTable, body.ullage,
                                                           body.heel) :
                  ~o.threw /\ o.value[1].heel_correction = Data.heel_correction
       ELSE Data.heel_correction = Zero

C9_Witness ==
    /\ Succeeded /\ soundingTable = TableA /\ heelTable = HeelTableA
    /\ body.ullage = Num(R(150, 1)) /\ body.trim = Num(R(0, 1))
    /\ body.heel = Num(R(3, 1))
    /\ Data.base_volume = R(60, 1) /\ Data.heel_correction = R(23, 2)
    /\ Data.final_volume = R(143, 2)

\* C10: sound rounding.  Whenever the ullage is bracketed (ullage_only and
\* bilinear cases) the returned sound is the linear interpolation of the two
\* bracketing rows' sound values across the ullage bracket rounded to the
\* nearest integer, and it is null when that integer is zero.
C10_SoundRounding ==
    (pc = "done" /\ QueryPresent /\ SoundingErrors = {}) =>
    \A lo \in StoredUllages(soundingTable), hi \in StoredUllages(soundingTable) :
    \A r1 \in RowsAt(soundingTable, lo), r2 \in RowsAt(soundingTable, hi) :
        ( /\ UllageBracketed(soundingTable, lo, hi, qUllage)
          /\ r1.sound # <<>> /\ r2.sound # <<>> )
        => LET x == Lerp(lo, r1.sound[1], hi, r2.sound[1], qUllage)
               half == R(1, 2)
           IN  /\ Succeeded
               /\ Data.main_interpolation.type \in {"ullage_only", "bilinear"}
               /\ Data.sound = <<>>
                    => Le(Neg(half), x) /\ Le(x, half)
               /\ Data.sound # <<>>
                    => /\ Data.sound[1][2] = 1 /\ Data.sound[1] # Zero
                       /\ Le(Sub(x, Data.sound[1]), half)
                       /\ Le(Sub(Data.sound[1], x), half)

\* 1 and 0 interpolated at one third of the bracket: 2/3 rounds to 1
C10_Witness ==
    /\ Succeeded /\ soundingTable = TableB
    /\ body.ullage = Num(R(150, 1)) /\ body.trim = Num(R(1, 4))
    /\ Data.main_interpolation.type = "bilinear"
    /\ Data.sound = <<R(1, 1)>>

\* 1 and 0 interpolated at two thirds of the bracket: 1/3 rounds to 0, null
C10_WitnessNull ==
    /\ Succeeded /\ soundingTable = TableB
    /\ body.ullage = Num(R(200, 1)) /\ body.trim = Num(R(0, 1))
    /\ Data.main_interpolation.type = "ullage_only"
    /\ Data.sound = <<>>

\* C11: sound returned as stored.  When the query ullage equals a stored
\* row's ullage (the trim exact or bracketed), the returned sound equals the
\* sound stored in a row of that ullage, for every stored value, a stored
\* sound of 0 included.
C11_SoundAsStored ==
    (pc = "done" /\ Succeeded /\ QueryPresent) =>
    \A u \in StoredUllages(soundingTable) :
        qUllage = u =>
            /\ Data.main_interpolation.type \in {"none", "trim_only"}
            /\ \E row \in RowsAt(soundingTable, u) : Data.sound = row.sound

\* the trim (the ullage) of the query is an exact match, is bracketed
TrimExact == OnAxis(trimRanges, qTrim)
TrimBracketed == \E i \in 1..(Len(trimRanges) - 1) : AxisBracketed(trimRanges, i, qTrim)
UllageIsExact == qUllage \in StoredUllages(soundingTable)
UllageIsBracketed ==
    \E lo \in StoredUllages(soundingTable), hi \in StoredUllages(soundingTable) :
        UllageBracketed(soundingTable, lo, hi, qUllage)

\* C12: provenance mode.  For every successful sounding evaluation the main
\* provenance type is one of none, trim_only, ullage_only, bilinear; it is
\* 'none' iff trim and ullage are both exact matches, 'trim_only' iff only
\* the trim is bracketed, 'ullage_only' iff only the ullage is bracketed and
\* 'bilinear' iff both are bracketed.
C12_ProvenanceMode ==
    (pc = "done" /\ Succeeded /\ QueryPresent) =>
    LET type == Data.main_interpolation.type
    IN  /\ type \in {"none", "trim_only", "ullage_only", "bilinear"}
        /\ type = "none" <=> (TrimExact /\ UllageIsExact)
        /\ type = "trim_only" <=> (TrimBracketed /\ UllageIsExact)
        /\ type = "ullage_only" <=> (TrimExact /\ UllageIsBracketed)
        /\ type = "bilinear" <=> (TrimBracketed /\ UllageIsBracketed)

C12_Witness ==
    /\ Succeeded /\ soundingTable = TableB
    /\ body.ullage = Num(R(300, 1)) /\ body.trim = Num(R(-7, 2))
    /\ Data.main_interpolation.type = "trim_only"

\* a provenance block (<<>> when null) names the bracket lower..upper of an axis
NamesBracket(bounds, axis, lower, upper) ==
    /\ bounds # <<>>
    /\ axis \in DOMAIN bounds[1]
    /\ bounds[1][axis] = [lower |-> lower, upper |-> upper]

\* the heel stage ran and returned a correction
HeelSucceeded ==
    /\ Data.heel_interpolation # <<>>
    /\ Data.heel_interpolation[1].type # "error"

\* C13: provenance bounds.  Every successful result carries the bracket
\* boundary values actually used: when the trim (the heel) was bracketed the
\* provenance block holds the lower and upper axis values of the bracket, and
\* when the ullage was bracketed it holds the lower and upper stored ullages;
\* in the trim_only and heel_only cases as in the ullage_only and bilinear.
C13_ProvenanceBounds ==
    (pc = "done" /\ Succeeded /\ QueryPresent) =>
    /\ \A i \in 1..(Len(trimRanges) - 1) :
          AxisBracketed(trimRanges, i, qTrim)
          => NamesBracket(Data.main_interpolation.bounds, "trim",
                          trimRanges[i].value, trimRanges[i + 1].value)
    /\ \A lo \in StoredUllages(soundingTable), hi \in StoredUllages(soundingTable) :
          UllageBracketed(soundingTable, lo, hi, qUllage)
          => NamesBracket(Data.main_interpolation.bounds, "ullage", lo, hi)
    /\ HeelSucceeded =>
        /\ \A j \in 1..(Len(heelRanges) - 1) :
              AxisBracketed(heelRanges, j, qHeel)
              => NamesBracket(Data.heel_interpolation[1].bounds, "heel",
                              heelRanges[j].value, heelRanges[j + 1].value)
        /\ \A lo \in StoredUllages(heelTable), hi \in StoredUllages(heelTable) :
              UllageBracketed(heelTable, lo, hi, qUllage)
              => NamesBracket(Data.heel_interpolation[1].bounds, "ullage", lo, hi)

\* C14: no error is silently swallowed.  A failure of the sounding stage
\* reaches the caller as a failure carrying its message, and only such a
\* failure does; a failure of the heel stage is recorded in the Result's heel
\* provenance with type 'error' and a non-null error.  The Results of a
\* failed, a successful and a not applicable heel stage differ: type 'error'
\* with an error, another type with no error, and a null heel block.
C14_NoSwallowedError ==
    (pc = "done" /\ QueryPresent) =>
    /\ Failed <=> SoundingErrors # {}
    /\ Succeeded <=> SoundingErrors = {}
    /\ Failed => /\ response[1].data = <<>>
                 /\ response[1].error # <<>>
                 /\ response[1].error[1] \in SoundingErrors
    /\ Succeeded =>
        LET block == Data.heel_interpolation
            heelFailed == HeelNonZero /\ HeelErrors # {}
            heelDone == HeelNonZero /\ HeelErrors = {}
        IN  /\ ~HeelNonZero <=> block = <<>>
            /\ heelFailed <=> (block # <<>> /\ block[1].type = "error")
            /\ heelFailed <=> (block # <<>> /\ block[1].error # <<>>)
            /\ heelFailed => block[1].error[1] \in HeelErrors
            /\ heelDone <=> ( /\ block # <<>> /\ block[1].error = <<>>
                              /\ block[1].type \in {"none", "heel_only",
                                                    "ullage_only", "bilinear"} )

\* the heel table is empty: the Result records the heel stage's failure
C14_Witness ==
    /\ Succeeded /\ soundingTable = TableA /\ heelTable = <<>>
    /\ body.ullage = Num(R(150, 1)) /\ body.trim = Num(R(0, 1))
    /\ body.heel = Num(R(1, 1))
    /\ Data.heel_interpolation # <<>>
    /\ Data.heel_interpolation[1].type = "error"
    /\ Data.heel_interpolation[1].error
         = <<Msg("No heel ullage data found for this compartment", NaN, NaN)>>

\* the columns of an axis a value consults: its own, or the two of its bracket
ColumnsConsulted(ranges, v) ==
    {ranges[i].column : i \in {k \in 1..Len(ranges) : ranges[k].value = v}}
    \cup {ranges[i].column : i \in {k \in 1..Len(ranges) :
            AxisBracketed(ranges, k, v) \/ AxisBracketed(ranges, k - 1, v)}}

\* the stored ullages a value consults: itself, or the two of its bracket
UllagesConsulted(table, u) ==
    {s \in StoredUllages(table) :
        \/ s = u
        \/ \E o \in StoredUllages(table) :
              UllageBracketed(table, s, o, u) \/ UllageBracketed(table, o, s, u)}

\* the sets of corner values a query can consult: one row for each consulted
\* ullage, and in it the cells of the consulted columns
CornerSets(table, ullages, columns) ==
    {{f[u][c] : u \in ullages, c \in columns} :
        f \in {g \in [ullages -> {table[i] : i \in 1..Len(table)}] :
                  \A u \in ullages : g[u].ullage = <<u>>}}

\* v lies between the least and the greatest of the cells
Within(v, cells) ==
    /\ \A c \in cells : c # <<>>
    /\ \E c \in cells : Le(c[1], v)
    /\ \E c \in cells : Le(v, c[1])

\* every cell a query can consult holds a number
CornersNumeric(table, ullages, columns) ==
    \A i \in 1..Len(table) : \A c \in columns :
        table[i].ullage[1] \in ullages => table[i][c] # <<>>

\* C15: no extrapolation.  Every successful sounding evaluation has its trim
\* within [-4.0, 4.0] and its ullage within [smallest, largest stored
\* ullage], and base_volume lies between the minimum and the maximum of the
\* one, two or four stored corner values consulted; likewise heel_correction,
\* when the heel stage returned one, lies between the minimum and the maximum
\* of the heel table's corner values consulted.
C15_NoExtrapolation ==
    (pc = "done" /\ Succeeded /\ QueryPresent) =>
    LET us == UllagesConsulted(soundingTable, qUllage)
        cs == ColumnsConsulted(trimRanges, qTrim)
        hus == UllagesConsulted(heelTable, qUllage)
        hcs == ColumnsConsulted(heelRanges, qHeel)
    IN  /\ Le(AxisMin(trimRanges), qTrim) /\ Le(qTrim, AxisMax(trimRanges))
        /\ soundingTable # <<>>
        /\ Le(MinUllage(soundingTable), qUllage)
        /\ Le(qUllage, MaxUllage(soundingTable))
        /\ Cardinality(us) \in {1, 2} /\ Cardinality(cs) \in {1, 2}
        /\ CornersNumeric(soundingTable, us, cs)
            => \E corners \in CornerSets(soundingTable, us, cs) :
                  Within(Data.base_volume, corners)
        /\ HeelSucceeded =>
            /\ Le(AxisMin(heelRanges), qHeel) /\ Le(qHeel, AxisMax(heelRanges))
            /\ heelTable # <<>>
            /\ Le(MinUllage(heelTable), qUllage)
            /\ Le(qUllage, MaxUllage(heelTable))
            /\ Cardinality(hus) \in {1, 2} /\ Cardinality(hcs) \in {1, 2}
            /\ CornersNumeric(heelTable, hus, hcs)
                => \E corners \in CornerSets(heelTable, hus, hcs) :
                      Within(Data.heel_correction, corners)

\* a bilinear sounding with a bilinear heel correction: four corners each
C15_Witness ==
    /\ Succeeded /\ soundingTable = TableB /\ heelTable = HeelTableA
    /\ body.ullage = Num(R(251, 1)) /\ body.trim = Num(R(1, 4))
    /\ body.heel = Num(R(1, 4))
    /\ Data.main_interpolation.type = "bilinear"
    /\ HeelSucceeded /\ Data.heel_interpolation[1].type = "bilinear"
    /\ Data.heel_correction # Zero

----------------------------------------------------------------------------
(* Concurrent invocations of the POST /sounding route.  Invocations of the *)
(* handler interleave at its awaits; each has its own body and its own     *)
(* locals, and all read the same tables.  Under SpecConcurrent the         *)
(* variables pc, body, baseSoundingData, heelCorrectionData, finalVolume   *)
(* and response hold one value for each invocation: pc[p] is the position  *)
(* of invocation p.                                                        *)

\* the number of invocations in flight
NumInvocations == 2

Procs == 1..NumInvocations

\* the requests the concurrent invocations are given
ConcurrentRequests ==
    { [ullage |-> Num(R(100, 1)), trim |-> Num(R(0, 1)), heel |-> Null],
      [ullage |-> Num(R(150, 1)), trim |-> Num(R(0, 1)), heel |-> Num(R(1, 2))],
      [ullage |-> Num(R(150, 1)), trim |-> Num(R(1, 4)), heel |-> Null],
      [ullage |-> Num(R(100, 1)), trim |-> Num(R(1, 4)), heel |-> Num(R(1, 2))],
      [ullage |-> Num(R(150, 1)), trim |-> Num(R(1, 4)), heel |-> Num(R(1, 2))] }

NoBody == [ullage |-> Undefined, trim |-> Undefined, heel |-> Undefined]

InitConcurrent ==
    /\ soundingTable \in SoundingTables
    /\ heelTable \in HeelTables
    /\ pc = [p \in Procs |-> "idle"]
    /\ body = [p \in Procs |-> NoBody]
    /\ baseSoundingData = [p \in Procs |-> <<>>]
    /\ heelCorrectionData = [p \in Procs |-> <<>>]
    /\ finalVolume = [p \in Procs |-> NaN]
    /\ response = [p \in Procs |-> <<>>]
    /\ db = EmptyDb
    /\ calls = NoCalls

\* a request with ullage and trim present reaches getCompleteSoundingData
RequestOf(p) ==
    /\ pc[p] = "idle"
    /\ \E b \in ConcurrentRequests : body' = [body EXCEPT ![p] = b]
    /\ pc' = [pc EXCEPT ![p] = "sounding"]
    /\ UNCHANGED <<db, calls, soundingTable, heelTable, baseSoundingData,
                   heelCorrectionData, finalVolume, response>>

\* ullage === undefined || trim === undefined: answered 400
BadRequestOf(p) ==
    /\ pc[p] = "idle"
    /\ \E u \in {Undefined, Num(R(100, 1))}, t \in {Undefined, Num(Zero)} :
          /\ u = Undefined \/ t = Undefined
          /\ body' = [body EXCEPT ![p] = [ullage |-> u, trim |-> t, heel |-> Undefined]]
    /\ pc' = [pc EXCEPT ![p] = "done"]
    /\ response' = [response EXCEPT ![p] =
          <<[statusCode |-> 400, success |-> FALSE, data |-> <<>>,
             error |-> <<Msg("Missing required parameters: compartment_id, ullage, trim",
                             NaN, NaN)>>]>>]
    /\ UNCHANGED <<db, calls, soundingTable, heelTable, baseSoundingData,
                   heelCorrectionData, finalVolume>>

\* (mutant) baseSoundingData is declared at module level: the invocations
\* share it
SoundingStageShared(p) ==
    /\ pc[p] = "sounding"
    /\ \E o \in getSoundingDataWithInterpolation(soundingTable, body[p].ullage,
                                                 body[p].trim) :
          /\ ~o.threw
          /\ baseSoundingData' = [q \in Procs |-> o.value]
          /\ finalVolume' = [finalVolume EXCEPT ![p] = o.value[1].volume]
    /\ heelCorrectionData' = [heelCorrectionData EXCEPT ![p] = <<>>]
    /\ pc' = [pc EXCEPT ![p] = "heel"]
    /\ UNCHANGED <<db, calls, soundingTable, heelTable, body, response>>

\* const baseSoundingData = await getSoundingDataWithInterpolation(...);
\* let heelCorrectionData = null; let finalVolume = baseSoundingData.volume;
SoundingStageOf(p) ==
    /\ pc[p] = "sounding"
    /\ \E o \in getSoundingDataWithInterpolation(soundingTable, body[p].ullage,
                                                 body[p].trim) :
          /\ ~o.threw
          /\ baseSoundingData' = [baseSoundingData EXCEPT ![p] = o.value]
          /\ finalVolume' = [finalVolume EXCEPT ![p] = o.value[1].volume]
    /\ heelCorrectionData' = [heelCorrectionData EXCEPT ![p] = <<>>]
    /\ pc' = [pc EXCEPT ![p] = "heel"]
    /\ UNCHANGED <<db, calls, soundingTable, heelTable, body, response>>

\* the sounding stage throws: the handler's catch answers 404 with the message
SoundingFailsOf(p) ==
    /\ pc[p] = "sounding"
    /\ \E o \in getSoundingDataWithInterpolation(soundingTable, body[p].ullage,
                                                 body[p].trim) :
          /\ o.threw
          /\ response' = [response EXCEPT ![p] =
                <<[statusCode |-> 404, success |-> FALSE, data |-> <<>>,
                   error |-> <<o.message>>]>>]
    /\ pc' = [pc EXCEPT ![p] = "done"]
    /\ UNCHANGED <<db, calls, soundingTable, heelTable, body, baseSoundingData,
                   heelCorrectionData, finalVolume>>

\* the heel block is entered and getHeelCorrectionWithInterpolation returns
HeelStageOf(p) ==
    /\ pc[p] = "heel"
    /\ HeelRequested(body[p].heel)
    /\ \E o \in getHeelCorrectionWithInterpolation(heelTable, body[p].ullage,
                                                   body[p].heel) :
          /\ ~o.threw
          /\ heelCorrectionData' = [heelCorrectionData EXCEPT ![p] = o.value]
          /\ finalVolume' = [finalVolume EXCEPT ![p] =
                CorrectedVolume(baseSoundingData[p][1].volume,
                                o.value[1].heel_correction)]
    /\ pc' = [pc EXCEPT ![p] = "return"]
    /\ UNCHANGED <<db, calls, soundingTable, heelTable, body, baseSoundingData, response>>

\* the heel block is entered and getHeelCorrectionWithInterpolation throws
HeelFailsOf(p) ==
    /\ pc[p] = "heel"
    /\ HeelRequested(body[p].heel)
    /\ \E o \in getHeelCorrectionWithInterpolation(heelTable, body[p].ullage,
                                                   body[p].heel) :
          /\ o.threw
          /\ heelCorrectionData' = [heelCorrectionData EXCEPT ![p] =
                <<HeelCaught(o.message)>>]
    /\ pc' = [pc EXCEPT ![p] = "return"]
    /\ UNCHANGED <<db, calls, soundingTable, heelTable, body, baseSoundingData,
                   finalVolume, response>>

\* the heel block is skipped
HeelSkippedOf(p) ==
    /\ pc[p] = "heel"
    /\ ~HeelRequested(body[p].heel)
    /\ pc' = [pc EXCEPT ![p] = "return"]
    /\ UNCHANGED <<db, calls, soundingTable, heelTable, body, baseSoundingData,
                   heelCorrectionData, finalVolume, response>>

\* the answer 200 of the handler to the request b with the Result data
Answer200(data, b) ==
    <<[statusCode |-> 200, success |-> TRUE,
       data |-> <<data @@ [trim |-> parseFloatField(b.trim),
                           heel |-> IF b.heel[1] # "undefined"
                                    THEN OrNaNNull(b.heel) ELSE <<>>]>>,
       error |-> <<>>]>>

\* getCompleteSoundingData returns and the handler answers 200
RespondOf(p) ==
    /\ pc[p] = "return"
    /\ response' = [response EXCEPT ![p] =
          Answer200(CompleteSoundingData(baseSoundingData[p][1],
                        heelCorrectionData[p], finalVolume[p]), body[p])]
    /\ pc' = [pc EXCEPT ![p] = "done"]
    /\ UNCHANGED <<db, calls, soundingTable, heelTable, body, baseSoundingData,
                   heelCorrectionData, finalVolume>>

\* the invocation is over and its locals are gone
FinishOf(p) ==
    /\ pc[p] = "done"
    /\ pc' = [pc EXCEPT ![p] = "idle"]
    /\ body' = [body EXCEPT ![p] = NoBody]
    /\ baseSoundingData' = [baseSoundingData EXCEPT ![p] = <<>>]
    /\ heelCorrectionData' = [heelCorrectionData EXCEPT ![p] = <<>>]
    /\ finalVolume' = [finalVolume EXCEPT ![p] = NaN]
    /\ response' = [response EXCEPT ![p] = <<>>]
    /\ UNCHANGED <<db, calls, soundingTable, heelTable>>

NextConcurrent ==
    \E p \in Procs :
        \/ RequestOf(p)
        \/ BadRequestOf(p)
        \/ SoundingStageOf(p)
        \/ SoundingFailsOf(p)
        \/ HeelStageOf(p)
        \/ HeelFailsOf(p)
        \/ HeelSkippedOf(p)
        \/ RespondOf(p)
        \/ FinishOf(p)

SpecConcurrent == InitConcurrent /\ [][NextConcurrent]_vars

\* the answers the handler can give to the request b from the tables alone
\* (several when rows share an ullage and LIMIT 1 picks one of them)
ResponsesFor(sTable, hTable, b) ==
    IF b.ullage = Undefined \/ b.trim = Undefined
    THEN {<<[statusCode |-> 400, success |-> FALSE, data |-> <<>>,
             error |-> <<Msg("Missing required parameters: compartment_id, ullage, trim",
                             NaN, NaN)>>]>>}
    ELSE
        LET resultsWith(base) ==
                IF ~HeelRequested(b.heel)
                THEN {CompleteSoundingData(base, <<>>, base.volume)}
                ELSE {CompleteSoundingData(base,
                          IF h.threw THEN <<HeelCaught(h.message)>> ELSE h.value,
                          IF h.threw THEN base.volume
                          ELSE CorrectedVolume(base.volume, h.value[1].heel_correction)) :
                        h \in getHeelCorrectionWithInterpolation(hTable, b.ullage, b.heel)}
            answers(outcomes) ==
                {<<[statusCode |-> 404, success |-> FALSE, data |-> <<>>,
                    error |-> <<o.message>>]>> : o \in {x \in outcomes : x.threw}}
                \cup UNION {{Answer200(r, b) : r \in resultsWith(o.value[1])} :
                               o \in {x \in outcomes : ~x.threw}}
        IN  answers(getSoundingDataWithInterpolation(sTable, b.ullage, b.trim))

\* no two rows of the table share an ullage
RowsUnique(table) ==
    \A i \in 1..Len(table), j \in 1..Len(table) :
        table[i].ullage = table[j].ullage => i = j

\* C16: statelessness.  No step of a query changes the sounding table or the
\* heel-correction table; an invocation that is over has kept nothing; and
\* whatever queries ran before or run concurrently, the answer to a query is
\* one the tables and the query alone determine, the only one when no two
\* rows share an ullage, and it stays as it was given.
C16_Stateless ==
    [][ /\ soundingTable' = soundingTable
        /\ heelTable' = heelTable
        /\ \A p \in Procs :
            /\ pc'[p] = "idle" =>
                  /\ body'[p] = NoBody /\ response'[p] = <<>>
                  /\ baseSoundingData'[p] = <<>> /\ heelCorrectionData'[p] = <<>>
                  /\ finalVolume'[p] = NaN
            /\ (pc[p] = "done" /\ pc'[p] = "done") =>
                  /\ response'[p] = response[p] /\ body'[p] = body[p]
            /\ (pc[p] # "done" /\ pc'[p] = "done") =>
                  /\ response'[p] \in ResponsesFor(soundingTable, heelTable, body'[p])
                  /\ (RowsUnique(soundingTable) /\ RowsUnique(heelTable))
                        => ResponsesFor(soundingTable, heelTable, body'[p])
                             = {response'[p]}
      ]_vars

\* one invocation has been answered while another, with another query, is
\* between its two stages
C16_Witness ==
    /\ soundingTable = TableA /\ heelTable = HeelTableA
    /\ pc[1] = "done" /\ pc[2] = "heel"
    /\ body[1] = [ullage |-> Num(R(150, 1)), trim |-> Num(R(1, 4)), heel |-> Num(R(1, 2))]
    /\ body[2] = [ullage |-> Num(R(100, 1)), trim |-> Num(R(0, 1)), heel |-> Null]
    /\ response[1] # <<>> /\ response[1][1].statusCode = 200
    /\ response[1][1].data[1].heel_interpolation[1].type = "none"
    /\ baseSoundingData[2] # <<>>

----------------------------------------------------------------------------
(* The resolvers on their own.  Under SpecResolvers a step calls one of    *)
(* getTrimBounds, getHeelBounds, getUllageBounds and getHeelUllageBounds   *)
(* with a value drawn from the sets below: pc names the function called,   *)
(* body holds its argument (in the field of that name) and response the    *)
(* object it returned.                                                     *)

\* values handed to the axis resolvers: every quarter from
\* -MaxAxisQuarters/4 to MaxAxisQuarters/4
MaxAxisQuarters == 20

AxisInputs == {Num(R(k, 4)) : k \in (-MaxAxisQuarters)..MaxAxisQuarters}

\* a dataset of a single row
TableOne ==
    LET v1 == [i \in 1..Len(trimRanges) |-> <<R(10 * i, 1)>>]
    IN  << SoundingRow(R(150, 1), v1, <<R(75, 1)>>, <<R(10, 1)>>, <<R(0, 1)>>,
                       <<R(2, 1)>>, <<R(100, 1)>>) >>

InitResolvers ==
    /\ soundingTable \in SoundingTables \cup {TableOne}
    /\ heelTable \in HeelTables
    /\ pc = "idle"
    /\ body = NoBody
    /\ baseSoundingData = <<>>
    /\ heelCorrectionData = <<>>
    /\ finalVolume = NaN
    /\ response = <<>>
    /\ db = EmptyDb
    /\ calls = NoCalls

\* const trimBounds = getTrimBounds(targetTrim);
CallGetTrimBounds ==
    /\ \E t \in AxisInputs :
          /\ body' = [NoBody EXCEPT !.trim = t]
          /\ response' = <<getTrimBounds(t)>>
    /\ pc' = "getTrimBounds"
    /\ UNCHANGED <<db, calls, soundingTable, heelTable, baseSoundingData,
                   heelCorrectionData, finalVolume>>

\* const heelBounds = getHeelBounds(targetHeel);
CallGetHeelBounds ==
    /\ \E h \in AxisInputs :
          /\ body' = [NoBody EXCEPT !.heel = h]
          /\ response' = <<getHeelBounds(h)>>
    /\ pc' = "getHeelBounds"
    /\ UNCHANGED <<db, calls, soundingTable, heelTable, baseSoundingData,
                   heelCorrectionData, finalVolume>>

\* const ullageBounds = await getUllageBounds(compartmentId, targetUllage);
CallGetUllageBounds ==
    /\ \E u \in UllageInputs :
          /\ body' = [NoBody EXCEPT !.ullage = u]
          /\ response' = <<getUllageBounds(soundingTable, u)>>
    /\ pc' = "getUllageBounds"
    /\ UNCHANGED <<db, calls, soundingTable, heelTable, baseSoundingData,
                   heelCorrectionData, finalVolume>>

\* const ullageBounds = await getHeelUllageBounds(compartmentId, targetUllage);
CallGetHeelUllageBounds ==
    /\ \E u \in UllageInputs :
          /\ body' = [NoBody EXCEPT !.ullage = u]
          /\ response' = <<getHeelUllageBounds(heelTable, u)>>
    /\ pc' = "getHeelUllageBounds"
    /\ UNCHANGED <<db, calls, soundingTable, heelTable, baseSoundingData,
                   heelCorrectionData, finalVolume>>

NextResolvers ==
    \/ CallGetTrimBounds
    \/ CallGetHeelBounds
    \/ CallGetUllageBounds
    \/ CallGetHeelUllageBounds

SpecResolvers == InitResolvers /\ [][NextResolvers]_vars

\* the outcome r of an axis resolver for the value v on the axis `ranges`,
\* whose messages have the texts below and above
AxisTrichotomy(ranges, v, r, below, above) ==
    LET isExact == r.exact /\ ~r.outOfRange
        isBracket == ~r.exact /\ ~r.outOfRange
        isOutOfRange == r.outOfRange /\ ~r.exact
        min == ranges[1].value
        max == ranges[Len(ranges)].value
    IN  /\ Cardinality({k \in {"exact", "bracket", "outOfRange"} :
                \/ k = "exact" /\ isExact
                \/ k = "bracket" /\ isBracket
                \/ k = "outOfRange" /\ isOutOfRange}) = 1
        /\ isExact <=> \E i \in 1..Len(ranges) : ranges[i].value = v
        /\ isExact => \E i \in 1..Len(ranges) :
                         ranges[i].value = v /\ r.column = ranges[i].column
        /\ isBracket <=> ( /\ Lt(min, v) /\ Lt(v, max)
                           /\ ~\E i \in 1..Len(ranges) : ranges[i].value = v )
        /\ isBracket => \E i \in 1..(Len(ranges) - 1) :
                           /\ r.lower = ranges[i] /\ r.upper = ranges[i + 1]
                           /\ Lt(r.lower.value, v) /\ Lt(v, r.upper.value)
        /\ isOutOfRange <=> (Lt(v, min) \/ Gt(v, max))
        /\ r.message = Msg(below, v, min) <=> Lt(v, min)
        /\ r.message = Msg(above, v, max) <=> Gt(v, max)

\* C17: Axis Resolver trichotomy.  Resolving a number v on the trim axis (13
\* points, -4.0..4.0) or the heel axis (11 points, -3.0..3.0) returns exactly
\* one outcome: Exact with the column bound to v iff v is an axis point;
\* Bracket(lower, upper), adjacent axis points with lower < v < upper, iff v
\* is strictly inside the range and not an axis point; OutOfRange otherwise,
\* its message saying 'below minimum' iff v < min and 'above maximum' iff
\* v > max and naming that bound and v.
C17_AxisTrichotomy ==
    /\ Len(trimRanges) = 13 /\ trimRanges[1].value = R(-4, 1) /\ trimRanges[13].value = R(4, 1)
    /\ Len(heelRanges) = 11 /\ heelRanges[1].value = R(-3, 1) /\ heelRanges[11].value = R(3, 1)
    /\ pc = "getTrimBounds" =>
          AxisTrichotomy(trimRanges, body.trim[2], response[1],
              "Trim ${target} is below minimum supported trim ${min}",
              "Trim ${target} is above maximum supported trim ${max}")
    /\ pc = "getHeelBounds" =>
          AxisTrichotomy(heelRanges, body.heel[2], response[1],
              "Heel ${target} is below minimum supported heel ${min}",
              "Heel ${target} is above maximum supported heel ${max}")

\* 3.25 on the heel axis is out of range, 3.25 on the trim axis is bracketed
C17_Witness ==
    /\ pc = "getHeelBounds" /\ body.heel = Num(R(13, 4))
    /\ response[1].outOfRange
    /\ response[1].message.bound = R(3, 1)

C17_WitnessBracket ==
    /\ pc = "getTrimBounds" /\ body.trim = Num(R(13, 4))
    /\ ~response[1].exact /\ ~response[1].outOfRange
    /\ response[1].lower.column = "trim_plus_3_0"
    /\ response[1].upper.column = "trim_plus_4_0"

\* the outcome r of an ullage bracket finder for the value v over the stored
\* ullages of a table, whose messages have the texts below and above
FinderTrichotomy(table, v, r, below, above) ==
    LET isExact == r.exact /\ ~r.outOfRange
        isBracket == ~r.exact /\ ~r.outOfRange
        isOutOfRange == r.outOfRange /\ ~r.exact
        min == MinUllage(table)
        max == MaxUllage(table)
    IN  /\ Cardinality({k \in {"exact", "bracket", "outOfRange"} :
                \/ k = "exact" /\ isExact
                \/ k = "bracket" /\ isBracket
                \/ k = "outOfRange" /\ isOutOfRange}) = 1
        /\ isExact <=> v \in StoredUllages(table)
        /\ isExact => r.ullage = v
        /\ isBracket <=> ( /\ Lt(min, v) /\ Lt(v, max)
                           /\ v \notin StoredUllages(table) )
        /\ isBracket => UllageBracketed(table, r.lowerUllage, r.upperUllage, v)
        /\ isOutOfRange <=> (Lt(v, min) \/ Gt(v, max))
        /\ r.message = Msg(below, v, min) <=> Lt(v, min)
        /\ r.message = Msg(above, v, max) <=> Gt(v, max)

\* C18: Ullage Bracket Finder.  Over the non-empty, ascending, duplicate-free
\* list of the stored ullages and a number v the finder returns Exact(v) iff
\* v is in the list; Bracket(lower, upper), adjacent in the list with
\* lower < v < upper, iff v is strictly between the first and the last
\* element and not in the list; OutOfRange iff v is below the first or above
\* the last element, the message naming the violated bound (minimum or
\* maximum).
C18_UllageFinder ==
    /\ (pc = "getUllageBounds" /\ soundingTable # <<>>) =>
          FinderTrichotomy(soundingTable, body.ullage[2], response[1],
              "Ullage ${target} is below minimum ullage ${min}",
              "Ullage ${target} is above maximum ullage ${max}")
    /\ (pc = "getHeelUllageBounds" /\ heelTable # <<>>) =>
          FinderTrichotomy(heelTable, body.ullage[2], response[1],
              "Ullage ${target} is below minimum heel correction ullage ${min}",
              "Ullage ${target} is above maximum heel correction ullage ${max}")

\* 251 lies between the stored ullages 250 and 300 of a table stored out of
\* order
C18_Witness ==
    /\ pc = "getUllageBounds" /\ soundingTable = TableB
    /\ body.ullage = Num(R(251, 1))
    /\ ~response[1].exact /\ ~response[1].outOfRange
    /\ response[1].lowerUllage = R(250, 1) /\ response[1].upperUllage = R(300, 1)

\* C19: Empty table is a distinct configuration error.  When the table of
\* a compartment has no ullage the finder reports that no calibration data
\* exists, and that outcome is not flagged as an out-of-range outcome.
C19_EmptyTableDistinct ==
    /\ (pc = "getUllageBounds" /\ soundingTable = <<>>) =>
          /\ response[1].message =
                Msg("No ullage data found for this compartment", NaN, NaN)
          /\ ~response[1].outOfRange
    /\ (pc = "getHeelUllageBounds" /\ heelTable = <<>>) =>
          /\ response[1].message =
                Msg("No heel ullage data found for this compartment", NaN, NaN)
          /\ ~response[1].outOfRange

----------------------------------------------------------------------------
(* The interpolator on its own.  Under SpecInterpolate the arguments of    *)
(* one call of linearInterpolate are chosen initially (body holds them)    *)
(* and the only step makes the call: response holds the number returned.   *)

\* abscissae are the halves from 0 to MaxInterpSteps/2, ordinates the halves
\* from -MaxInterpSteps/2 to MaxInterpSteps/2
MaxInterpSteps == 4

InterpX == {R(k, 2) : k \in 0..MaxInterpSteps}
InterpY == {R(k, 2) : k \in (-MaxInterpSteps)..MaxInterpSteps}

InitInterpolate ==
    /\ soundingTable = <<>>
    /\ heelTable = <<>>
    /\ pc = "idle"
    /\ body \in [x1 : InterpX, y1 : InterpY, x2 : InterpX, y2 : InterpY,
                 x : InterpX]
    /\ baseSoundingData = <<>>
    /\ heelCorrectionData = <<>>
    /\ finalVolume = NaN
    /\ response = <<>>
    /\ db = EmptyDb
    /\ calls = NoCalls

\* linearInterpolate(x1, y1, x2, y2, x)
CallLinearInterpolate ==
    /\ pc = "idle"
    /\ pc' = "linearInterpolate"
    /\ response' = <<linearInterpolate(body.x1, body.y1, body.x2, body.y2,
                                       body.x)>>
    /\ UNCHANGED <<db, calls, soundingTable, heelTable, body, baseSoundingData,
                   heelCorrectionData, finalVolume>>

NextInterpolate == CallLinearInterpolate

SpecInterpolate == InitInterpolate /\ [][NextInterpolate]_vars

\* v lies between a and b, whichever of them is the larger
Between(v, a, b) == (Le(a, v) /\ Le(v, b)) \/ (Le(b, v) /\ Le(v, a))

\* C21: Linear Interpolator.  For numbers x1 # x2, y1, y2 and x the
\* interpolator returns y1 + (y2 - y1) * (x - x1) / (x2 - x1): y1 at x = x1,
\* y2 at x = x2 and a value between y1 and y2 for x between x1 and x2; it
\* returns a number for every such input.
C21_LinearInterpolator ==
    (pc = "linearInterpolate" /\ body.x1 # body.x2) =>
        /\ response[1] = Add(body.y1,
              Div(Mul(Sub(body.y2, body.y1), Sub(body.x, body.x1)),
                  Sub(body.x2, body.x1)))
        /\ ~IsNaN(response[1])
        /\ body.x = body.x1 => response[1] = body.y1
        /\ body.x = body.x2 => response[1] = body.y2
        /\ Between(body.x, body.x1, body.x2) =>
              Between(response[1], body.y1, body.y2)

\* the line through
\* (2, 1) and (0, -2) at 1/2
C21_Witness ==
    /\ pc = "linearInterpolate"
    /\ body = [x1 |-> R(2, 1), y1 |-> R(1, 1), x2 |-> R(0, 1),
               y2 |-> R(-2, 1), x |-> R(1, 2)]
    /\ response[1] = R(-5, 4)

\* C22: Degenerate interpolator.  When x1 = x2 the interpolator returns y1
\* for every y2 and every x, also for y1 # y2 and x = x1: nothing is divided
\* by the zero width of the bracket.
C22_DegenerateInterpolator ==
    (pc = "linearInterpolate" /\ body.x1 = body.x2) =>
        response[1] = body.y1

\* interpolate(1, -1, 1, 2, 1)
C22_Witness ==
    /\ pc = "linearInterpolate"
    /\ body = [x1 |-> R(1, 1), y1 |-> R(-1, 1), x2 |-> R(1, 1),
               y2 |-> R(2, 1), x |-> R(1, 1)]
    /\ response[1] = R(-1, 1)

\* the number of rows stored under the ullage lo or the ullage hi
FetchedCount(table, lo, hi) ==
    Cardinality({j \in 1..Len(table) : table[j].ullage \in {<<lo>>, <<hi>>}})

\* the ullage u is bracketed in the table and the two bracketing ullages are
\* not stored in exactly two rows
BracketRowsNotTwo(table, u) ==
    \E lo \in StoredUllages(table), hi \in StoredUllages(table) :
        UllageBracketed(table, lo, hi, u) /\ FetchedCount(table, lo, hi) # 2

TrimInRange == Le(AxisMin(trimRanges), qTrim) /\ Le(qTrim, AxisMax(trimRanges))
HeelInRange == Le(AxisMin(heelRanges), qHeel) /\ Le(qHeel, AxisMax(heelRanges))

\* C23: Row-count check.  Whenever the ullage resolves to a bracket but the
\* rows fetched for the two bracketing ullages are not exactly two (the
\* dataset holds duplicate ullage rows), the sounding evaluation fails with
\* an 'Insufficient data' error and returns no value; in the heel evaluator
\* the same condition fails the heel stage, which the Result records.
C23_RowCountCheck ==
    (pc = "done" /\ QueryPresent) =>
    /\ (TrimInRange /\ BracketRowsNotTwo(soundingTable, qUllage)) =>
          /\ Failed
          /\ response[1].data = <<>>
          /\ response[1].error # <<>>
          /\ response[1].error[1].text \in
                {"Insufficient data for ullage interpolation",
                 "Insufficient data for bilinear interpolation"}
    /\ ( /\ Succeeded /\ HeelNonZero /\ HeelInRange
         /\ BracketRowsNotTwo(heelTable, qUllage) ) =>
          /\ Data.heel_interpolation # <<>>
          /\ Data.heel_interpolation[1].type = "error"
          /\ Data.heel_interpolation[1].error # <<>>
          /\ Data.heel_interpolation[1].error[1].text \in
                {"Insufficient heel correction data for ullage interpolation",
                 "Insufficient heel correction data for bilinear interpolation"}
          /\ Data.heel_correction = Zero

\* a bracketed trim over a sounding table with a duplicated ullage row
C23_Witness ==
    /\ Failed /\ soundingTable = TableDup
    /\ BracketRowsNotTwo(soundingTable, qUllage)
    /\ body.trim = Num(R(1, 4))
    /\ response[1].error[1].text = "Insufficient data for bilinear interpolation"

\* an exact heel over a heel table with a duplicated ullage row
C23_WitnessHeel ==
    /\ Succeeded /\ heelTable = HeelTableDup
    /\ BracketRowsNotTwo(heelTable, qUllage)
    /\ body.heel = Num(R(1, 1))
    /\ Data.heel_interpolation[1].type = "error"
    /\ Data.heel_interpolation[1].error[1].text
         = "Insufficient heel correction data for ullage interpolation"

\* the number in a cell known to hold one
Cell(row, column) == row[column][1]

\* C24: the Heel Correction Evaluator mirrors the Sounding Evaluator.  For an
\* in-range heel other than zero and an ullage in the range of the heel
\* table, heel_correction is the stored cell when heel and ullage are both
\* exact; the interpolation across the ullage bracket within the one heel
\* column when only the ullage is bracketed; the interpolation across the
\* two bracketing heel columns of the matching row when only the heel is
\* bracketed; and the interpolation across the ullage bracket of the two
\* values interpolated across the heel columns when both are bracketed.
C24_HeelEvaluatorMirrors ==
    (pc = "done" /\ Succeeded /\ QueryPresent /\ HeelNonZero) =>
    LET h == qHeel
        u == qUllage
        stored == StoredUllages(heelTable)
    IN  \* heel exact, ullage exact
        /\ \A j \in 1..Len(heelRanges) :
              LET c == heelRanges[j].column
              IN  ( /\ heelRanges[j].value = h /\ u \in stored
                    /\ \A row \in RowsAt(heelTable, u) : row[c] # <<>> )
                  => /\ HeelSucceeded
                     /\ Data.heel_interpolation[1].type = "none"
                     /\ \E row \in RowsAt(heelTable, u) :
                           Data.heel_correction = Cell(row, c)
        \* heel exact, ullage bracketed
        /\ \A j \in 1..Len(heelRanges) : \A lo \in stored, hi \in stored :
           \A r1 \in RowsAt(heelTable, lo), r2 \in RowsAt(heelTable, hi) :
              LET c == heelRanges[j].column
              IN  ( /\ heelRanges[j].value = h
                    /\ UllageBracketed(heelTable, lo, hi, u)
                    /\ FetchedCount(heelTable, lo, hi) = 2
                    /\ r1[c] # <<>> /\ r2[c] # <<>> )
                  => /\ HeelSucceeded
                     /\ Data.heel_interpolation[1].type = "ullage_only"
                     /\ Data.heel_correction
                          = Lerp(lo, Cell(r1, c), hi, Cell(r2, c), u)
        \* heel bracketed, ullage exact
        /\ \A j \in 1..(Len(heelRanges) - 1) :
              LET lc == heelRanges[j].column
                  uc == heelRanges[j + 1].column
              IN  ( /\ AxisBracketed(heelRanges, j, h) /\ u \in stored
                    /\ \A row \in RowsAt(heelTable, u) :
                          row[lc] # <<>> /\ row[uc] # <<>> )
                  => /\ HeelSucceeded
                     /\ Data.heel_interpolation[1].type = "heel_only"
                     /\ \E row \in RowsAt(heelTable, u) :
                           Data.heel_correction
                             = Lerp(heelRanges[j].value, Cell(row, lc),
                                    heelRanges[j + 1].value, Cell(row, uc), h)
        \* heel bracketed, ullage bracketed
        /\ \A j \in 1..(Len(heelRanges) - 1) : \A lo \in stored, hi \in stored :
           \A r1 \in RowsAt(heelTable, lo), r2 \in RowsAt(heelTable, hi) :
              LET lc == heelRanges[j].column
                  uc == heelRanges[j + 1].column
                  hl == heelRanges[j].value
                  hu == heelRanges[j + 1].value
              IN  ( /\ AxisBracketed(heelRanges, j, h)
                    /\ UllageBracketed(heelTable, lo, hi, u)
                    /\ FetchedCount(heelTable, lo, hi) = 2
                    /\ r1[lc] # <<>> /\ r1[uc] # <<>>
                    /\ r2[lc] # <<>> /\ r2[uc] # <<>> )
                  => /\ HeelSucceeded
                     /\ Data.heel_interpolation[1].type = "bilinear"
                     /\ Data.heel_correction
                          = Lerp(lo, Lerp(hl, Cell(r1, lc), hu, Cell(r1, uc), h),
                                 hi, Lerp(hl, Cell(r2, lc), hu, Cell(r2, uc), h), u)

\* heel 0.25 between heel_0_0 and heel_plus_0_5, ullage 251 between the heel
\* table's rows 200 and 300
C24_Witness ==
    /\ Succeeded /\ heelTable = HeelTableA
    /\ body.ullage = Num(R(251, 1)) /\ body.heel = Num(R(1, 4))
    /\ HeelSucceeded
    /\ Data.heel_interpolation[1].type = "bilinear"
    /\ Data.heel_correction = R(341, 4000)

\* the ullage u is stored, bracketed or out of the range of the table
UllageStoredIn(table, u) == u \in StoredUllages(table)
UllageBracketedIn(table, u) ==
    \E lo \in StoredUllages(table), hi \in StoredUllages(table) :
        UllageBracketed(table, lo, hi, u)
UllageOutside(table, u) ==
    table # <<>> /\ (Lt(u, MinUllage(table)) \/ Gt(u, MaxUllage(table)))

\* C25: independent ullage sets.  The heel stage resolves the query ullage
\* against the stored ullages of the heel-correction table alone: whether
\* the heel provenance says exact, bracketed or out of range is decided by
\* the heel table, whatever the sounding table holds, and the ullage bounds
\* of the heel provenance are ullages stored in the heel table.
C25_IndependentUllageSets ==
    (pc = "done" /\ Succeeded /\ QueryPresent /\ HeelNonZero /\ HeelInRange) =>
    LET block == Data.heel_interpolation[1]
    IN  /\ UllageStoredIn(heelTable, qUllage)
              => block.type \in {"none", "heel_only"}
        /\ UllageBracketedIn(heelTable, qUllage)
              => block.type \in {"ullage_only", "bilinear", "error"}
        /\ (UllageBracketedIn(heelTable, qUllage) /\ block.type # "error")
              => /\ block.bounds # <<>>
                 /\ UllageBracketed(heelTable, block.bounds[1].ullage.lower,
                                    block.bounds[1].ullage.upper, qUllage)
        /\ UllageOutside(heelTable, qUllage)
              => /\ block.type = "error"
                 /\ block.error[1].text \in
                      {"Ullage ${target} is below minimum heel correction ullage ${min}",
                       "Ullage ${target} is above maximum heel correction ullage ${max}"}
                 /\ block.error[1].bound \in StoredUllages(heelTable)
        /\ (block.bounds # <<>>) =>
              /\ block.bounds[1].ullage.lower \in StoredUllages(heelTable)
              /\ block.bounds[1].ullage.upper \in StoredUllages(heelTable)

\* 250 is stored in the sounding table and lies between the heel table's
\* 200 and 300, neither of which the sounding table stores
C25_Witness ==
    /\ Succeeded /\ soundingTable = TableB /\ heelTable = HeelTableA
    /\ body.ullage = Num(R(250, 1)) /\ body.heel = Num(R(1, 1))
    /\ Data.main_interpolation.type \in {"none", "trim_only"}
    /\ Data.heel_interpolation[1].type = "ullage_only"
    /\ Data.heel_interpolation[1].bounds[1].ullage = [lower |-> R(200, 1), upper |-> R(300, 1)]
    /\ R(200, 1) \notin StoredUllages(soundingTable)

\* 100 is stored in the sounding table and below the heel table's first ullage
C25_WitnessOutside ==
    /\ Succeeded /\ soundingTable = TableA /\ heelTable = HeelTableA
    /\ body.ullage = Num(R(100, 1)) /\ body.heel = Num(R(1, 1))
    /\ Data.main_interpolation.type \in {"none", "trim_only"}
    /\ Data.heel_interpolation[1].type = "error"

\* an out-of-range outcome ends the evaluation with its own message: the
\* trim before the ullage in the sounding stage, the heel before the ullage
\* in the heel stage
AbortsWithReason ==
    (pc = "done" /\ QueryPresent) =>
    /\ ~TrimInRange =>
          /\ Failed
          /\ response[1].error[1].text \in
                {"Trim ${target} is below minimum supported trim ${min}",
                 "Trim ${target} is above maximum supported trim ${max}"}
          /\ response[1].error[1].target = qTrim
    /\ (TrimInRange /\ UllageOutside(soundingTable, qUllage)) =>
          /\ Failed
          /\ response[1].error[1].text \in
                {"Ullage ${target} is below minimum ullage ${min}",
                 "Ullage ${target} is above maximum ullage ${max}"}
          /\ response[1].error[1].target = qUllage
    /\ (Succeeded /\ HeelNonZero /\ ~HeelInRange) =>
          /\ Data.heel_interpolation[1].type = "error"
          /\ Data.heel_interpolation[1].error[1].text \in
                {"Heel ${target} is below minimum supported heel ${min}",
                 "Heel ${target} is above maximum supported heel ${max}"}
          /\ Data.heel_interpolation[1].error[1].target = qHeel
    /\ (Succeeded /\ HeelNonZero /\ HeelInRange /\ UllageOutside(heelTable, qUllage)) =>
          /\ Data.heel_interpolation[1].type = "error"
          /\ Data.heel_interpolation[1].error[1].text \in
                {"Ullage ${target} is below minimum heel correction ullage ${min}",
                 "Ullage ${target} is above maximum heel correction ullage ${max}"}
          /\ Data.heel_interpolation[1].error[1].target = qUllage

\* a step of one composite query keeps the order of the stages
StagesInOrder ==
    \* the heel evaluator is started only after the sounding evaluator returned
    /\ pc' \in {"heel", "return"} => baseSoundingData' # <<>>
    /\ (heelCorrectionData' # heelCorrectionData /\ heelCorrectionData' # <<>>) =>
          /\ pc = "heel"
          /\ baseSoundingData # <<>>
          /\ baseSoundingData' = baseSoundingData
    \* the sounding evaluator returns while no heel result exists
    /\ (baseSoundingData' # baseSoundingData /\ baseSoundingData' # <<>>) =>
          /\ pc = "sounding"
          /\ heelCorrectionData = <<>> /\ heelCorrectionData' = <<>>
    \* a failed sounding evaluator ends the query: no heel stage
    /\ (pc = "sounding" /\ pc' # "heel") =>
          /\ pc' = "done"
          /\ response'[1].statusCode = 404
          /\ baseSoundingData' = <<>> /\ heelCorrectionData' = <<>>

\* C26: evaluation order.  Within one composite query the Sounding Evaluator
\* has returned before the Heel Correction Evaluator starts, and the Heel
\* Correction Evaluator is never started when the Sounding Evaluator failed;
\* inside each evaluator an out-of-range outcome of the axis resolver or of
\* the ullage finder ends the evaluation with that reason.
C26_EvaluationOrder == [][StagesInOrder]_vars /\ []AbortsWithReason

\* the trim is out of range over an empty sounding table: the query fails
\* with the trim's message and no heel stage ran, although a heel was given
C26_Witness ==
    /\ Failed /\ soundingTable = <<>> /\ QueryPresent
    /\ body.trim = Num(R(9, 2)) /\ body.heel = Num(R(1, 1))
    /\ response[1].error[1].text = "Trim ${target} is above maximum supported trim ${max}"
    /\ heelCorrectionData = <<>>

\* the heel stage is running after the sounding stage returned
C26_WitnessHeel ==
    /\ pc = "return" /\ baseSoundingData # <<>> /\ heelCorrectionData # <<>>
    /\ heelCorrectionData[1].error = <<>>

\* the fields of a Result the heel must not influence
MainFields == {"base_volume", "sound", "lcg", "tcg", "vcg", "iy", "main_interpolation"}
MainOf(data) == [f \in MainFields |-> data[f]]

\* those fields as the sounding evaluator's return value alone determines them
MainBlock(base) ==
    [base_volume |-> base.volume, sound |-> base.sound, lcg |-> base.lcg,
     tcg |-> base.tcg, vcg |-> base.vcg, iy |-> base.iy,
     main_interpolation |-> [type |-> base.interpolation_used,
                             bounds |-> base.interpolation_bounds]]

\* the values those fields can take for the sounding table, ullage and trim
\* of the request: neither the heel nor the heel table is read
MainResults ==
    {MainBlock(o.value[1]) :
        o \in {x \in getSoundingDataWithInterpolation(soundingTable, body.ullage,
                                                       body.trim) : ~x.threw}}

\* C27: heel non-interference.  For a fixed sounding table and in-range
\* (ullage, trim), base_volume, sound, lcg, tcg, vcg, iy and the main
\* provenance block of the Result are the same for every heel (absent, zero,
\* in range, out of range) and every heel-correction table: they are a
\* function of the sounding table, the ullage and the trim.
C27_HeelNonInterference ==
    (pc = "done" /\ Succeeded /\ QueryPresent) =>
    /\ MainOf(Data) \in MainResults
    /\ RowsUnique(soundingTable) => MainResults = {MainOf(Data)}

\* a heel correction was applied and the main fields are those of the
\* sounding table
C27_Witness ==
    /\ Succeeded /\ soundingTable = TableB /\ heelTable = HeelTableA
    /\ body.ullage = Num(R(250, 1)) /\ body.trim = Num(R(1, 4))
    /\ body.heel = Num(R(1, 1))
    /\ HeelSucceeded
    /\ Data.heel_correction # Zero
    /\ Data.final_volume # Data.base_volume
    /\ MainResults = {MainOf(Data)}

\* the number a cell stands for when a missing value counts as 0
Val(row, column) == IF row[column] = <<>> THEN Zero ELSE row[column][1]

\* the one row a table without duplicates stores under the ullage s
RowAt(table, s) == CHOOSE row \in RowsAt(table, s) : TRUE

\* the value of a row at v along an axis: the cell of the column bound to v,
\* or the interpolation of the two bracketing columns
AcrossAxis(row, ranges, v) ==
    IF OnAxis(ranges, v)
    THEN Val(row, ranges[CHOOSE i \in 1..Len(ranges) : ranges[i].value = v].column)
    ELSE LET i == CHOOSE k \in 1..(Len(ranges) - 1) : AxisBracketed(ranges, k, v)
         IN  Lerp(ranges[i].value, Val(row, ranges[i].column),
                  ranges[i + 1].value, Val(row, ranges[i + 1].column), v)

LowerUllage(table, u) == CHOOSE lo \in StoredUllages(table) :
                            \E hi \in StoredUllages(table) : UllageBracketed(table, lo, hi, u)
UpperUllage(table, u) == CHOOSE hi \in StoredUllages(table) :
                            \E lo \in StoredUllages(table) : UllageBracketed(table, lo, hi, u)

\* the value of a table at (u, v) with missing cells counted as 0
ValueAt(table, ranges, u, v) ==
    IF u \in StoredUllages(table) THEN AcrossAxis(RowAt(table, u), ranges, v)
    ELSE Lerp(LowerUllage(table, u),
              AcrossAxis(RowAt(table, LowerUllage(table, u)), ranges, v),
              UpperUllage(table, u),
              AcrossAxis(RowAt(table, UpperUllage(table, u)), ranges, v), u)

\* the attribute a of a table at u with missing cells counted as 0
AttributeAt(table, u, a) ==
    IF u \in StoredUllages(table) THEN Val(RowAt(table, u), a)
    ELSE Lerp(LowerUllage(table, u), Val(RowAt(table, LowerUllage(table, u)), a),
              UpperUllage(table, u), Val(RowAt(table, UpperUllage(table, u)), a), u)

\* a cell the query consults, in one of the columns given, is NULL
NullConsulted(table, u, columns) ==
    \E s \in UllagesConsulted(table, u) : \E row \in RowsAt(table, s) :
        \E c \in columns : row[c] = <<>>

UllageInside(table, u) ==
    table # <<>> /\ Le(MinUllage(table), u) /\ Le(u, MaxUllage(table))

\* C28: missing cell values become zero.  When a trim or heel column cell,
\* or an lcg, tcg, vcg or iy cell, that a query consults is NULL, the
\* evaluators compute with 0 in its place and the query succeeds: no error,
\* and a provenance block of type and bounds only, as for complete data.
C28_MissingCellsAreZero ==
    (pc = "done" /\ QueryPresent) =>
    /\ ( /\ TrimInRange /\ UllageInside(soundingTable, qUllage)
         /\ RowsUnique(soundingTable)
         /\ NullConsulted(soundingTable, qUllage,
                ColumnsConsulted(trimRanges, qTrim) \cup {"lcg", "tcg", "vcg", "iy"}) )
       => /\ Succeeded
          /\ response[1].error = <<>>
          /\ Data.base_volume = ValueAt(soundingTable, trimRanges, qUllage, qTrim)
          /\ \A a \in {"lcg", "tcg", "vcg", "iy"} :
                Data[a] = AttributeAt(soundingTable, qUllage, a)
          /\ DOMAIN Data.main_interpolation = {"type", "bounds"}
          /\ Data.main_interpolation.type
                \in {"none", "trim_only", "ullage_only", "bilinear"}
    /\ ( /\ Succeeded /\ HeelNonZero /\ HeelInRange
         /\ UllageInside(heelTable, qUllage) /\ RowsUnique(heelTable)
         /\ NullConsulted(heelTable, qUllage, ColumnsConsulted(heelRanges, qHeel)) )
       => /\ HeelSucceeded
          /\ Data.heel_interpolation[1].error = <<>>
          /\ Data.heel_correction = ValueAt(heelTable, heelRanges, qUllage, qHeel)
          /\ Data.final_volume = Add(Data.base_volume, Data.heel_correction)

\* trim_plus_1_0 and tcg are NULL in the row of ullage 100: trim 1.0 at
\* ullage 100 is answered with the volume 0 and tcg 0
C28_Witness ==
    /\ Succeeded /\ soundingTable = TableB
    /\ body.ullage = Num(R(100, 1)) /\ body.trim = Num(R(1, 1))
    /\ RowAt(soundingTable, R(100, 1)).trim_plus_1_0 = <<>>
    /\ Data.base_volume = Zero /\ Data.tcg = Zero
    /\ Data.main_interpolation.type = "none"

\* heel_plus_1_0 is NULL in the heel row of ullage 200
C28_WitnessHeel ==
    /\ Succeeded /\ heelTable = HeelTableA
    /\ body.ullage = Num(R(200, 1)) /\ body.heel = Num(R(1, 1))
    /\ HeelSucceeded
    /\ Data.heel_correction = Zero /\ Data.final_volume = Data.base_volume

----------------------------------------------------------------------------
(* The sync routes.  Under SpecSync every invocation p makes one call of   *)
(* syncSoundings or of syncBunkering; calls[p] holds the locals of the     *)
(* call and its position, named after the query it is about to await.      *)
(* Every awaited query is a step of its own, so the calls interleave at    *)
(* the queries, and every query may be rejected by the database.  A query  *)
(* reads the committed rows and the rows of its own transaction (READ      *)
(* COMMITTED, the default of the pool).  The id sequences are not rolled   *)
(* back.                                                                   *)

\* payloads of syncSoundings: the session_id of the summary (<<>> when the
\* summary is absent) and the client_ids of the soundings
SoundingPayloads ==
    { [summary |-> <<"s1">>, soundings |-> <<"a", "b">>],
      [summary |-> <<>>, soundings |-> <<"a">>],
      [summary |-> <<"s2">>, soundings |-> <<"b", "b">>],
      [summary |-> <<"s1">>, soundings |-> <<>>] }

\* payloads of syncBunkering: the operations, each with its client_id and the
\* client_ids of its readings
BunkeringPayloads ==
    { << [client_id |-> "x", readings |-> <<"r1", "r2">>] >>,
      << [client_id |-> "x", readings |-> <<>>],
         [client_id |-> "y", readings |-> <<"r3">>] >> }

\* an invocation that has not called a sync route
NotCalled ==
    [fn |-> "none", pc |-> "idle", payload |-> <<>>, i |-> 1, j |-> 1,
     tx |-> NoRows, insertedIds |-> <<>>, skippedDuplicates |-> <<>>,
     summaryId |-> <<>>, bunkeringId |-> <<>>, error |-> <<>>,
     released |-> FALSE, outcome |-> <<>>]

\* const client = await pool.connect(): the call holds a client and is about
\* to BEGIN
NewCall(fn, payload) ==
    [NotCalled EXCEPT !.fn = fn, !.pc = "BEGIN", !.payload = payload]

\* the list the main loop of the call iterates: soundings or bunkeringOps
Items(c) == IF c.fn = "syncSoundings" THEN c.payload.soundings ELSE c.payload

\* where the main loop continues with its i-th item
LoopPc(c, i) == IF i <= Len(Items(c)) THEN "check" ELSE "COMMIT"

\* the rows of table t a query of the call sees
Visible(c, t) == db.rows[t] \o c.tx[t]

\* SELECT ... FROM t WHERE client_id = $1
SelectByClientId(c, t, id) ==
    SelectSeq(Visible(c, t), LAMBDA row : row.client_id = id)

InitSync ==
    /\ soundingTable = <<>>
    /\ heelTable = <<>>
    /\ pc = "idle"
    /\ body = NoBody
    /\ baseSoundingData = <<>>
    /\ heelCorrectionData = <<>>
    /\ finalVolume = NaN
    /\ response = <<>>
    /\ db = EmptyDb
    /\ calls = [p \in Procs |-> NotCalled]

\* syncSoundings(vesselId, payload) is called
SyncSoundingsCalled(p) ==
    /\ calls[p].pc = "idle"
    /\ \E payload \in SoundingPayloads :
          calls' = [calls EXCEPT ![p] = NewCall("syncSoundings", payload)]
    /\ UNCHANGED <<db, engineVars>>

\* syncBunkering(vesselId, bunkeringOps) is called
SyncBunkeringCalled(p) ==
    /\ calls[p].pc = "idle"
    /\ \E payload \in BunkeringPayloads :
          calls' = [calls EXCEPT ![p] = NewCall("syncBunkering", payload)]
    /\ UNCHANGED <<db, engineVars>>

\* await client.query('BEGIN')
Begin(p) ==
    /\ calls[p].pc = "BEGIN"
    /\ calls' = [calls EXCEPT ![p].pc =
                    IF calls[p].fn = "syncSoundings" /\ calls[p].payload.summary # <<>>
                    THEN "summary" ELSE LoopPc(calls[p], 1)]
    /\ UNCHANGED <<db, engineVars>>

\* INSERT INTO sounding_reports ... RETURNING report_id
InsertSummary(p) ==
    /\ calls[p].pc = "summary"
    /\ calls' = [calls EXCEPT
          ![p].tx.sounding_reports = Append(@,
                [report_id |-> db.serial,
                 session_id |-> calls[p].payload.summary[1]]),
          ![p].summaryId = <<db.serial>>,
          ![p].pc = LoopPc(calls[p], 1)]
    /\ db' = [db EXCEPT !.serial = @ + 1]
    /\ UNCHANGED engineVars

\* SELECT log_id FROM sounding_logs WHERE client_id = $1, and the test of
\* existing.rows.length
CheckSounding(p) ==
    /\ calls[p].pc = "check" /\ calls[p].fn = "syncSoundings"
    /\ calls' = [calls EXCEPT ![p] =
          IF Len(SelectByClientId(@, "sounding_logs", Items(@)[@.i])) > 0
          THEN [@ EXCEPT !.skippedDuplicates = Append(@, Items(calls[p])[calls[p].i]),
                         !.i = @ + 1,
                         !.pc = LoopPc(calls[p], calls[p].i + 1)]
          ELSE [@ EXCEPT !.pc = "insert"]]
    /\ UNCHANGED <<db, engineVars>>

\* INSERT INTO sounding_logs ... RETURNING log_id; insertedIds.push
InsertSounding(p) ==
    /\ calls[p].pc = "insert" /\ calls[p].fn = "syncSoundings"
    /\ calls' = [calls EXCEPT
          ![p].tx.sounding_logs = Append(@,
                [log_id |-> db.serial, client_id |-> Items(calls[p])[calls[p].i]]),
          ![p].insertedIds = Append(@, db.serial),
          ![p].i = @ + 1,
          ![p].pc = LoopPc(calls[p], calls[p].i + 1)]
    /\ db' = [db EXCEPT !.serial = @ + 1]
    /\ UNCHANGED engineVars

\* SELECT bunkering_id FROM bunkering_operations WHERE client_id = $1, and
\* the test of existing.rows.length
CheckBunkering(p) ==
    /\ calls[p].pc = "check" /\ calls[p].fn = "syncBunkering"
    /\ calls' = [calls EXCEPT ![p] =
          IF Len(SelectByClientId(@, "bunkering_operations", Items(@)[@.i].client_id)) > 0
          THEN [@ EXCEPT !.i = @ + 1, !.pc = LoopPc(calls[p], calls[p].i + 1)]
          ELSE [@ EXCEPT !.pc = "insert"]]
    /\ UNCHANGED <<db, engineVars>>

\* the call after the readings of its i-th operation are all inserted:
\* insertedOps.push(bunkeringId) and the next operation
OperationDone(c, bunkeringId) ==
    [c EXCEPT !.insertedIds = Append(@, bunkeringId),
              !.i = @ + 1, !.j = 1,
              !.pc = LoopPc(c, c.i + 1)]

\* INSERT INTO bunkering_operations ... RETURNING bunkering_id
InsertBunkering(p) ==
    /\ calls[p].pc = "insert" /\ calls[p].fn = "syncBunkering"
    /\ calls' = [calls EXCEPT ![p] =
          IF Len(Items(@)[@.i].readings) = 0
          THEN OperationDone(
                  [@ EXCEPT !.tx.bunkering_operations = Append(@,
                        [bunkering_id |-> db.serial,
                         client_id |-> Items(calls[p])[calls[p].i].client_id]),
                     !.bunkeringId = <<db.serial>>], db.serial)
          ELSE [@ EXCEPT !.tx.bunkering_operations = Append(@,
                        [bunkering_id |-> db.serial,
                         client_id |-> Items(calls[p])[calls[p].i].client_id]),
                     !.bunkeringId = <<db.serial>>,
                     !.j = 1, !.pc = "reading"]]
    /\ db' = [db EXCEPT !.serial = @ + 1]
    /\ UNCHANGED engineVars

\* INSERT INTO bunkering_readings (bunkering_id, ..., client_id)
InsertReading(p) ==
    /\ calls[p].pc = "reading"
    /\ calls' = [calls EXCEPT ![p] =
          IF @.j = Len(Items(@)[@.i].readings)
          THEN OperationDone(
                  [@ EXCEPT !.tx.bunkering_readings = Append(@,
                        [bunkering_id |-> calls[p].bunkeringId[1],
                         client_id |-> Items(calls[p])[calls[p].i].readings[calls[p].j]])],
                  @.bunkeringId[1])
          ELSE [@ EXCEPT !.tx.bunkering_readings = Append(@,
                        [bunkering_id |-> calls[p].bunkeringId[1],
                         client_id |-> Items(calls[p])[calls[p].i].readings[calls[p].j]]),
                     !.j = @ + 1]]
    /\ UNCHANGED <<db, engineVars>>

\* the positions at which the call awaits a query
QueryPositions == {"BEGIN", "summary", "check", "insert", "reading", "COMMIT"}

\* the awaited query rejects: control passes to the catch block
QueryFails(p) ==
    /\ calls[p].pc \in QueryPositions
    /\ calls' = [calls EXCEPT ![p].error = <<calls[p].pc>>, ![p].pc = "ROLLBACK"]
    /\ UNCHANGED <<db, engineVars>>

\* the object a call returns
SyncResult(c) ==
    IF c.fn = "syncSoundings"
    THEN [success |-> TRUE, inserted |-> Len(c.insertedIds),
          skipped |-> Len(c.skippedDuplicates), inserted_ids |-> c.insertedIds,
          summary_id |-> c.summaryId, session_id |-> c.payload.summary]
    ELSE [success |-> TRUE, inserted |-> Len(c.insertedIds),
          inserted_ids |-> c.insertedIds]

\* await client.query('COMMIT'); return { success: true, ... }
Commit(p) ==
    /\ calls[p].pc = "COMMIT"
    /\ db' = [db EXCEPT !.rows = [t \in LogTables |-> @[t] \o calls[p].tx[t]]]
    /\ calls' = [calls EXCEPT ![p].tx = NoRows,
                              ![p].outcome = <<Return(SyncResult(calls[p]))>>,
                              ![p].pc = "release"]
    /\ UNCHANGED engineVars

\* catch (error) { await client.query('ROLLBACK'); throw error; }
Rollback(p) ==
    /\ calls[p].pc = "ROLLBACK"
    /\ calls' = [calls EXCEPT ![p].tx = NoRows,
                              ![p].outcome = <<Throw(calls[p].error[1])>>,
                              ![p].pc = "release"]
    /\ UNCHANGED <<db, engineVars>>

\* finally { client.release(); }
\* The ROLLBACK query of the catch block is itself rejected (the connection is
\* gone): the rejection leaves the catch block in place of the caught error,
\* 'throw error' is not reached, and the server aborts the open transaction
\* of the session that ended.
RollbackFails(p) ==
    /\ calls[p].pc = "ROLLBACK"
    /\ calls' = [calls EXCEPT ![p].tx = NoRows,
                              ![p].outcome = <<Throw("ROLLBACK")>>,
                              ![p].pc = "release"]
    /\ UNCHANGED <<db, engineVars>>

Release(p) ==
    /\ calls[p].pc = "release"
    /\ calls' = [calls EXCEPT ![p].released = TRUE, ![p].pc = "done"]
    /\ UNCHANGED <<db, engineVars>>

NextSync ==
    \E p \in Procs :
        \/ SyncSoundingsCalled(p)
        \/ SyncBunkeringCalled(p)
        \/ Begin(p)
        \/ InsertSummary(p)
        \/ CheckSounding(p)
        \/ InsertSounding(p)
        \/ CheckBunkering(p)
        \/ InsertBunkering(p)
        \/ InsertReading(p)
        \/ QueryFails(p)
        \/ Commit(p)
        \/ Rollback(p)
        \/ RollbackFails(p)
        \/ Release(p)

SpecSync == InitSync /\ [][NextSync]_vars

\* the client_ids the soundings of the payloads carry
SoundingClientIds ==
    UNION {{payload.soundings[k] : k \in 1..Len(payload.soundings)} :
              payload \in SoundingPayloads}

\* the committed rows of table t stored under the client_id
StoredUnder(t, id) == SelectSeq(db.rows[t], LAMBDA row : row.client_id = id)

\* the call has returned (not thrown)
Returned(c) == c.outcome # <<>> /\ ~c.outcome[1].threw
Threw(c) == c.outcome # <<>> /\ c.outcome[1].threw

\* C29: sync deduplication.  After any sequence or interleaving of
\* syncSoundings calls the sounding log store holds at most one row for each
\* client_id: a sounding whose client_id is already stored is skipped, never
\* inserted, and every sounding of a call that returned was either inserted
\* or counted in 'skipped'; of two calls that returned for the same payload
\* one reports inserted = 0.
C29_SyncDeduplication ==
    /\ \A id \in SoundingClientIds : Len(StoredUnder("sounding_logs", id)) <= 1
    /\ \A p \in DOMAIN calls :
          /\ (calls[p].fn = "syncSoundings" /\ Returned(calls[p]))
                => calls[p].outcome[1].value[1].inserted
                     + calls[p].outcome[1].value[1].skipped
                   = Len(calls[p].payload.soundings)
    /\ \A p \in DOMAIN calls, q \in DOMAIN calls :
          ( /\ p # q
            /\ calls[p].fn = "syncSoundings" /\ calls[q].fn = "syncSoundings"
            /\ calls[p].payload = calls[q].payload
            /\ Returned(calls[p]) /\ Returned(calls[q]) )
          => \/ calls[p].outcome[1].value[1].inserted = 0
             \/ calls[q].outcome[1].value[1].inserted = 0

\* ---------------------------------------------------------------------
\* C30: sync atomicity

\* the ids the call received from its INSERT ... RETURNING statements
CallIds(c) ==
    {c.insertedIds[k] : k \in 1..Len(c.insertedIds)}
        \cup {c.summaryId[k] : k \in 1..Len(c.summaryId)}
        \cup {c.bunkeringId[k] : k \in 1..Len(c.bunkeringId)}

\* the id a stored row carries: its own, or for a reading its operation's
RowIdOf(t, row) ==
    CASE t = "sounding_reports" -> row.report_id
      [] t = "sounding_logs" -> row.log_id
      [] OTHER -> row.bunkering_id

StoredIds ==
    UNION {{RowIdOf(t, db.rows[t][k]) : k \in 1..Len(db.rows[t])} : t \in LogTables}

\* a query of the call was rejected and the catch block has finished
CallFailed(c) == c.error # <<>> /\ c.pc \in {"release", "done"}

\* all or nothing: no row of a call that failed is stored, every row of a call
\* that returned is
SyncAllOrNothing ==
    \A p \in DOMAIN calls :
        /\ CallFailed(calls[p]) => CallIds(calls[p]) \cap StoredIds = {}
        /\ Returned(calls[p]) => CallIds(calls[p]) \subseteq StoredIds

\* the rejected query was an INSERT of a summary, a sounding, an operation
\* or a reading
InsertFailed(c) == CallFailed(c) /\ c.error[1] \in {"summary", "insert", "reading"}

\* the caller of a call whose insert failed receives the error of that insert
SyncErrorRethrown ==
    \A p \in DOMAIN calls :
        InsertFailed(calls[p])
            => Threw(calls[p]) /\ calls[p].outcome[1].message = calls[p].error[1]

\* the client is released in every outcome
SyncClientReleased ==
    \A p \in DOMAIN calls :
        /\ calls[p].pc = "done" => calls[p].released /\ calls[p].outcome # <<>>
        /\ calls[p].released => calls[p].pc = "done"

\* C30: sync atomicity.  A syncSoundings or syncBunkering call is all or
\* nothing: when a query of the call fails, none of the rows the call
\* inserted (summary, soundings, operations, readings) is stored, the error
\* is rethrown to the caller, and the client is released in every outcome.
C30_SyncAtomicity ==
    /\ SyncAllOrNothing
    /\ SyncErrorRethrown
    /\ SyncClientReleased

====
